---- MODULE Spec2Model ----
(***************************************************************************)
(* Agent lifecycle and change propagation of the nanocrew gateway:         *)
(* AgentRegistry (hot reload of the config file), MultiAgentManager (the   *)
(* live map of AgentLoop instances), the EventBus and the FileCache.       *)
(***************************************************************************)
EXTENDS Integers, Sequences, FiniteSets, TLC

(* ---------------------------------------------------------------------- *)
(* Bounds                                                                  *)
(* ---------------------------------------------------------------------- *)
\* highest mtime the config file reaches (number of mtime-advancing writes)
MaxMtime == 3
\* number of AgentLoop instances ever constructed
MaxInst == 3
\* number of EventBus.publish calls observed
MaxPubs == 2
\* longest subscriber list of a topic
MaxSubs == 2
\* last tick of the event loop's clock
MaxTime == 4
\* number of _do_invalidate tasks ever created
MaxTimers == 3
\* highest st_mtime a cached file reaches
MaxFileVer == 2
\* number of contents a cached file goes through
MaxContent == 4

(* ---------------------------------------------------------------------- *)
(* Config documents                                                        *)
(* ---------------------------------------------------------------------- *)
AgentNames == {"main", "backend", "temp"}
Sessions == {"feishu:T"}
Temps == {7, 2}
BindTargets == {"backend", "temp"}

\* AgentDefinition: the seven fields of nanocrew.config.schema.AgentDefinition;
\* every agent is configured with a workspace of its own.
MkDef(name, temp) ==
    [workspace |-> <<"workspaces", name>>, model |-> "model", temperature |-> temp,
     max_tokens |-> 8192, max_tool_iterations |-> 20, memory_window |-> 50,
     system_prompt |-> ""]

EmptyFn == [x \in {} |-> x]

\* Config(): the configuration load_config falls back to.
DefaultConfig == [registry |-> [n \in {"main"} |-> MkDef(n, 7)], bindings |-> EmptyFn]

Registries ==
    { [n \in S \cup {"main"} |-> MkDef(n, IF n = "backend" THEN t ELSE 7)] :
        S \in SUBSET (AgentNames \ {"main"}), t \in Temps }

BindingMaps == { [s \in D |-> a] : D \in SUBSET Sessions, a \in BindTargets }

\* What the config file can hold: a document that parses and validates, one
\* that does not (json.JSONDecodeError / pydantic ValueError), and a file
\* whose open() fails with OSError.
ValidDocs == { [kind |-> "valid", registry |-> r, bindings |-> b] :
                 r \in Registries, b \in BindingMaps }
InvalidDoc == [kind |-> "invalid", registry |-> EmptyFn, bindings |-> EmptyFn]
UnreadableDoc == [kind |-> "unreadable", registry |-> EmptyFn, bindings |-> EmptyFn]
Docs == ValidDocs \cup {InvalidDoc, UnreadableDoc}

VARIABLES
    diskDoc,      \* content of ~/.nanocrew/config.json
    diskMtime,    \* its st_mtime
    config,       \* AgentRegistry._config
    lastMtime,    \* AgentRegistry._last_mtime
    lastAgents,   \* AgentRegistry._last_agents
    running,      \* an asyncio event loop is running (asyncio.run(run()))
    subscribers,  \* event_bus._subscribers: topic -> list of handlers
    emitQ,        \* the _emit_changes tasks alive in the event loop
    loops,        \* MultiAgentManager._loops: name -> AgentLoop
    nextId,       \* identity of the next AgentLoop constructed
    stopped,      \* the AgentLoop instances that were sent stop()
    sinceAdded,   \* per name: what became of the last agent.added handled for it
    ret,          \* the operation just performed and what it returned
    pubs,         \* the EventBus.publish calls made by other publishers
    files,        \* the files the FileCache reads: path -> [mtime, content]
    cache,        \* FileCache._cache: path -> CacheEntry
    invalidators, \* FileCache._invalidators
    pendingInv,   \* FileCache._pending_invalidations: path -> task
    timers,       \* the _do_invalidate tasks ever created
    callers,      \* the coroutines calling FileCache.invalidate
    now,          \* the event loop's clock
    hist,         \* per path: the invalidate calls and their effects so far
    agentPaths,   \* AgentEventRouter._agent_paths: name -> paths
    pathToAgents, \* AgentEventRouter._path_to_agents: path -> names
    watchHandlers,\* FileWatcherService._watch_handlers: path -> watch
    fsDirs,       \* the directories that exist under the workspaces
    wsFiles,      \* the files of the workspaces: path -> content
    addTasks,     \* the watcher's agent.added handler tasks, in creation order
    jsonDoc,      \* the JSON document in a config file handed to the loader
    migrated,     \* what _migrate_config returned for it
    loaded,       \* the config load_config returned
    firstLoaded   \* the config the first load_config returned

\* the state of the agent registry and manager, bar the bus subscriptions
agentVars == <<diskDoc, diskMtime, config, lastMtime, lastAgents, running,
               emitQ, loops, nextId, stopped, sinceAdded>>
cacheVars == <<files, cache, invalidators, pendingInv, timers, callers, now, hist>>
routerVars == <<agentPaths, pathToAgents, watchHandlers, fsDirs, wsFiles, addTasks>>
loaderVars == <<jsonDoc, migrated, loaded, firstLoaded>>
sideVars == <<routerVars, loaderVars>>
utilVars == <<pubs, cacheVars, sideVars>>

vars == <<agentVars, subscribers, ret, utilVars>>

(* ---------------------------------------------------------------------- *)
(* nanocrew.config.loader                                                  *)
(* ---------------------------------------------------------------------- *)
LoadRaises == [registry |-> EmptyFn, bindings |-> EmptyFn, raised |-> TRUE]

\* load_config: a parse or validation error is caught and Config() returned;
\* an OSError from open() is not caught.
LoadConfig(doc) ==
    IF doc.kind = "unreadable" THEN LoadRaises
    ELSE IF doc.kind = "invalid"
         THEN [registry |-> DefaultConfig.registry,
               bindings |-> DefaultConfig.bindings, raised |-> FALSE]
         ELSE [registry |-> doc.registry, bindings |-> doc.bindings, raised |-> FALSE]

(* ---------------------------------------------------------------------- *)
(* nanocrew.agent.registry.AgentRegistry                                   *)
(* ---------------------------------------------------------------------- *)
FieldsToCheck == <<"workspace", "model", "temperature", "max_tokens",
                   "max_tool_iterations", "memory_window", "system_prompt">>

\* a comparison that leaves the last field out
ChangedFieldsButLast(oldDef, newDef) ==
    SelectSeq(SubSeq(FieldsToCheck, 1, Len(FieldsToCheck) - 1),
              LAMBDA f : oldDef[f] # newDef[f])

ChangedFields(oldDef, newDef) ==
    SelectSeq(FieldsToCheck, LAMBDA f : oldDef[f] # newDef[f])

DetectUpdates(oldReg, newReg, common) ==
    [n \in {m \in common : ChangedFields(oldReg[m], newReg[m]) # <<>>} |->
        ChangedFields(oldReg[n], newReg[n])]

NoReload(reg) ==
    [reg |-> reg, reloaded |-> FALSE, added |-> {}, removed |-> {},
     updated |-> EmptyFn, tasks |-> <<>>]

EmitTask(added, removed, updated) ==
    [added |-> added, removed |-> removed, updated |-> updated,
     cur |-> <<>>, snap |-> <<>>, pending |-> {}]

\* a faulty reload: it keeps the events of a reload made outside an event
\* loop for the loop to come
CreateTaskWithoutLoop(inLoop, added, removed, updated) ==
    IF added # {} \/ removed # {} \/ DOMAIN updated # {}
    THEN <<EmitTask(added, removed, updated)>>
    ELSE <<>>

\* _check_reload, lines 76-86: get_running_loop().create_task(_emit_changes),
\* or nothing when no loop runs (RuntimeError); a task with nothing to
\* publish is left out
CreateTask(inLoop, added, removed, updated) ==
    IF inLoop /\ (added # {} \/ removed # {} \/ DOMAIN updated # {})
    THEN <<EmitTask(added, removed, updated)>>
    ELSE <<>>

\* _check_reload on registry state reg = [config, lastMtime, lastAgents].
CheckReload(reg, doc, mtime, inLoop) ==
    IF mtime <= reg.lastMtime THEN NoReload(reg)
    ELSE LET new == LoadConfig(doc) IN
         IF new.raised THEN NoReload(reg)
         ELSE LET oldAgents == reg.lastAgents
                  newAgents == DOMAIN new.registry
                  added == newAgents \ oldAgents
                  removed == oldAgents \ newAgents
                  updated == DetectUpdates(reg.config.registry, new.registry,
                                           oldAgents \cap newAgents)
              IN [reg |-> [config |-> [registry |-> new.registry,
                                       bindings |-> new.bindings],
                           lastMtime |-> mtime, lastAgents |-> newAgents],
                  reloaded |-> TRUE, added |-> added, removed |-> removed,
                  updated |-> updated,
                  tasks |-> CreateTask(inLoop, added, removed, updated)]

Reg == [config |-> config, lastMtime |-> lastMtime, lastAgents |-> lastAgents]

\* AgentsConfig.get_agent: the named definition, main's for an unknown name.
GetAgent(cfg, name) ==
    IF name \in DOMAIN cfg.registry THEN cfg.registry[name] ELSE cfg.registry["main"]

\* get_agent_name_for_session, after its reload check.
AgentNameForSession(cfg, s) ==
    IF s \in DOMAIN cfg.bindings THEN cfg.bindings[s] ELSE "main"


(* ---------------------------------------------------------------------- *)
(* nanocrew.utils.events.EventBus: the subscriber table                    *)
(* ---------------------------------------------------------------------- *)
EVENT_AGENT_ADDED == "agent.added"
EVENT_AGENT_REMOVED == "agent.removed"
EVENT_AGENT_UPDATED == "agent.updated"

Without(f, k) == [x \in DOMAIN f \ {k} |-> f[x]]

\* subscribe: append to the topic's list, creating it.
Subscribe(subs, topic, h) ==
    IF topic \in DOMAIN subs
    THEN [subs EXCEPT ![topic] = Append(@, h)]
    ELSE subs @@ (topic :> <<h>>)

\* unsubscribe: drop every occurrence; delete the topic when its list empties.
Unsubscribe(subs, topic, h) ==
    IF topic \in DOMAIN subs
    THEN LET rest == SelectSeq(subs[topic], LAMBDA x : x # h) IN
         IF rest = <<>> THEN Without(subs, topic)
         ELSE [subs EXCEPT ![topic] = rest]
    ELSE subs

\* publish: self._subscribers.get(event.name, []).copy()
Snapshot(subs, topic) == IF topic \in DOMAIN subs THEN subs[topic] ELSE <<>>

(* ---------------------------------------------------------------------- *)
(* nanocrew.agent.manager.MultiAgentManager                                *)
(* ---------------------------------------------------------------------- *)
\* where the creation of an instance can fail: in _create_agent_loop
\* (mkdir, ensure_agent_workspace, AgentLoop()), or in the file watcher's
\* register_agent that follows it
FailPoints == {"none", "create", "register"}

\* _create_agent_loop: the AgentLoop is bound to the workspace of the
\* definition it is given.
CreateAgentLoop(name, def, id) == [id |-> id, name |-> name, workspace |-> def.workspace]

\* get_loop, lines 133-145: the live map afterwards.
GetLoopLoops(lp, name, def, fail, id) ==
    IF name \in DOMAIN lp \/ fail = "create" THEN lp
    ELSE lp @@ (name :> CreateAgentLoop(name, def, id))

\* a faulty handler: it builds the instance without looking at the live map
HandleAgentAddedNoCheck(lp, name, def, fail, id) ==
    IF fail = "create" THEN lp
    ELSE [n \in DOMAIN lp \cup {name} |->
            IF n = name THEN CreateAgentLoop(name, def, id) ELSE lp[n]]

\* a faulty handler: it builds the instance and never stores it
HandleAgentAddedNoStore(lp, name, def, fail, id) == lp

\* _handle_agent_added, lines 252-269: the live map afterwards.
HandleAgentAddedLoops(lp, name, def, fail, id) ==
    IF name \in DOMAIN lp \/ fail = "create" THEN lp
    ELSE lp @@ (name :> CreateAgentLoop(name, def, id))

\* a faulty handler: it stops the instance and leaves it in the live map
HandleAgentRemovedNoPop(lp, name) == lp

\* _handle_agent_removed, lines 282-288: the live map afterwards.
HandleAgentRemovedLoops(lp, name) ==
    IF name \in DOMAIN lp THEN Without(lp, name) ELSE lp

\* list_active_agents
ListActive(lp) == DOMAIN lp

\* the manager's handlers are subscribed (start() has run, stop() has not)
Started == \E k \in DOMAIN Snapshot(subscribers, EVENT_AGENT_REMOVED) :
              Snapshot(subscribers, EVENT_AGENT_REMOVED)[k] = "mgr_removed"

(* ---------------------------------------------------------------------- *)
(* nanocrew.utils.events.EventBus.publish, seen from any publisher         *)
(* ---------------------------------------------------------------------- *)
BusTopics == {"test.event", "other.event"}
BusHandlers == {"h1", "h2"}

\* gather that lets the first exception of a handler out to the publisher
GatherFirstException(st) ==
    IF \E k \in DOMAIN st : st[k] = "failed" THEN "raised"
    ELSE IF \E k \in DOMAIN st : st[k] \in {"ready", "suspended"} THEN "pending"
    ELSE "returned"

\* asyncio.gather(..., return_exceptions=True): it completes when every
\* handler task has, and an exception is one more result.
GatherResult(st) ==
    IF \E k \in DOMAIN st : st[k] \in {"ready", "suspended"} THEN "pending"
    ELSE "returned"

\* handlers awaited one after the other: the k-th is called when those before
\* it have finished
StartableInTurn(st, k) ==
    st[k] = "ready" /\ \A j \in DOMAIN st : j < k => st[j] \in {"done", "failed"}

\* gather receives one _safe_call per handler of the copy and makes a task of
\* each before the publisher suspends: the k-th task can take its first step
\* whatever the others are doing
Startable(st, k) == st[k] = "ready"

\* publish up to the gather: the handlers are copied from the topic's list
NewPublish(subs, topic) ==
    LET snap == Snapshot(subs, topic) IN
    [topic |-> topic, snap |-> snap, st |-> [k \in DOMAIN snap |-> "ready"],
     heard |-> [k \in DOMAIN snap |-> ""],
     result |-> IF snap = <<>> THEN "returned" ELSE "pending"]

\* a dispatch that looks the handler up in the subscriber table when its turn
\* comes
HandlerAtLive(pub, subs, k) ==
    IF k \in DOMAIN Snapshot(subs, pub.topic) THEN Snapshot(subs, pub.topic)[k] ELSE ""

\* the handler the k-th task of the gather calls: the k-th of the copy
HandlerAt(pub, subs, k) == pub.snap[k]

(* ---------------------------------------------------------------------- *)
(* nanocrew.utils.file_cache.FileCache                                     *)
(* ---------------------------------------------------------------------- *)
CachePaths == {"AGENTS.md"}
InvNames == {"context_builder", "skills_loader"}
Callers == {"c1", "c2"}

\* debounce_ms = 500, in clock ticks of 250 ms
DebounceTicks == 2

\* a coroutine that is not inside invalidate; for invalidate_all the record
\* keeps the paths left to notify (todo), the paths that were cached (snap)
\* and the invalidators that were registered (regs) when it was called, and
\* how often it has called each invalidator (cbs)
Idle == [pc |-> "idle", path |-> "", task |-> 0, todo |-> {}, snap |-> {},
         regs |-> {}, cbs |-> [i \in InvNames |-> 0]]

\* nothing has been asked of a path yet
NoHist == [lastCall |-> -1, burst |-> 0, execs |-> 0, execAt |-> -1, dropped |-> 0,
           cbs |-> [i \in InvNames |-> 0], disturbed |-> FALSE]

SetKey(f, k, v) == [q \in DOMAIN f \cup {k} |-> IF q = k THEN v ELSE f[q]]

Finished(tm, t) == tm[t].state \in {"done", "cancelled"}

\* invalidate that leaves the pending task to run
CancelNothing(tm, t) == tm

\* task.cancel(): a task that has not finished receives CancelledError at
\* the await it is suspended in (the sleep, or an invalidator: except
\* Exception does not catch it) and ends there; a finished task is left alone.
CancelTask(tm, t) ==
    IF Finished(tm, t) THEN tm ELSE [tm EXCEPT ![t].state = "cancelled"]

RECURSIVE CancelAll(_, _)
CancelAll(tm, ts) ==
    IF ts = {} THEN tm
    ELSE LET t == CHOOSE x \in ts : TRUE IN CancelAll(CancelTask(tm, t), ts \ {t})

\* asyncio.create_task(_do_invalidate())
NewTimer(p) == [path |-> p, state |-> "created", deadline |-> 0, pos |-> 0]

\* a file: its st_mtime and its content; no file at the path is NoFile
NoFile == [mtime |-> 0, content |-> 0]
FileV(v) == [mtime |-> v, content |-> v]

\* what can happen to the file during a call of get: nothing; it is deleted
\* between path.exists() and path.stat() ("vanish"); between path.stat()
\* and path.read_text() it is rewritten ("write") or deleted ("delete");
\* read_text fails to decode it ("undecodable") or to read it ("ioerror")
Betweens == {"none", "vanish", "write", "delete", "undecodable", "ioerror"}

\* a faulty get: it returns the entry it holds whatever the file's mtime
CacheGetAnyEntry(c, f, p, between) ==
    IF f[p] = NoFile THEN [cache |-> c, val |-> 0, files |-> f, read |-> FALSE,
                           raised |-> FALSE]
    ELSE IF p \in DOMAIN c
    THEN [cache |-> c, val |-> c[p].content, files |-> f, read |-> FALSE,
          raised |-> FALSE]
    ELSE [cache |-> [q \in DOMAIN c \cup {p} |-> IF q = p THEN f[p] ELSE c[q]],
          val |-> f[p].content, files |-> f, read |-> TRUE, raised |-> FALSE]

\* get: [cache, val, files, read, raised] after a call; val 0 stands for
\* None, read tells whether read_text was called, raised whether the call
\* ended in an exception.
CacheGet(c, f, p, between) ==
    IF f[p] = NoFile
    THEN [cache |-> c, val |-> 0, files |-> f, read |-> FALSE, raised |-> FALSE]
    ELSE IF between = "vanish"
    THEN [cache |-> c, val |-> 0, files |-> [f EXCEPT ![p] = NoFile],
          read |-> FALSE, raised |-> TRUE]
    ELSE IF p \in DOMAIN c /\ c[p].mtime = f[p].mtime
    THEN [cache |-> c, val |-> c[p].content, files |-> f, read |-> FALSE,
          raised |-> FALSE]
    ELSE IF between = "delete"
    THEN [cache |-> c, val |-> 0, files |-> [f EXCEPT ![p] = NoFile],
          read |-> TRUE, raised |-> FALSE]
    ELSE IF between \in {"undecodable", "ioerror"}
    THEN [cache |-> c, val |-> 0, files |-> f, read |-> TRUE, raised |-> FALSE]
    ELSE LET f2 == IF between = "write"
                   THEN [f EXCEPT ![p] = [mtime |-> @.mtime + 1,
                                          content |-> @.content + 1]]
                   ELSE f
             e == [mtime |-> f[p].mtime, content |-> f2[p].content]
         IN [cache |-> [q \in DOMAIN c \cup {p} |-> IF q = p THEN e ELSE c[q]],
             val |-> e.content, files |-> f2, read |-> TRUE, raised |-> FALSE]

\* the calls of invalidate(p) that follow one another within the debounce
\* delay form a burst; the effects are counted from the burst's first call
Called(h, t, overlapped) ==
    IF h.lastCall >= 0 /\ t - h.lastCall < DebounceTicks
    THEN [h EXCEPT !.lastCall = t, !.burst = @ + 1,
                   !.disturbed = @ \/ overlapped]
    ELSE [NoHist EXCEPT !.lastCall = t, !.burst = 1,
                        !.disturbed = h.disturbed \/ overlapped]

(* ---------------------------------------------------------------------- *)
(* nanocrew.config.watcher: AgentEventRouter and the watches               *)
(* ---------------------------------------------------------------------- *)
\* paths are sequences of components; the workspaces agents are given
RouterNames == {"main", "temp"}
Workspaces == {<<"w1">>, <<"w2">>}

\* register_agent, lines 44-52: the seven paths of a workspace
AgentFilePaths(ws) ==
    {ws \o <<"AGENTS.md">>, ws \o <<"SOUL.md">>, ws \o <<"USER.md">>,
     ws \o <<"TOOLS.md">>, ws \o <<"IDENTITY.md">>,
     ws \o <<"memory", "MEMORY.md">>, ws \o <<"skills">>}

\* the directories that can come to exist: a workspace, its memory and
\* skills directories
DirCandidates ==
    UNION {{ws, ws \o <<"memory">>, ws \o <<"skills">>} : ws \in Workspaces}

\* Path.parent
Parent(path) == SubSeq(path, 1, Len(path) - 1)

\* changed.relative_to(dir) does not raise: dir's components begin changed's
IsUnder(changed, dir) ==
    Len(dir) <= Len(changed) /\ SubSeq(changed, 1, Len(dir)) = dir

\* AgentEventRouter.register_agent: the two maps afterwards
RouterRegistered(ap, pta, name, ws) ==
    [agentPaths |-> [n \in DOMAIN ap \cup {name} |->
                       IF n = name THEN AgentFilePaths(ws) ELSE ap[n]],
     pathToAgents |-> [q \in DOMAIN pta \cup AgentFilePaths(ws) |->
                         (IF q \in DOMAIN pta THEN pta[q] ELSE {})
                           \cup (IF q \in AgentFilePaths(ws) THEN {name} ELSE {})]]

\* AgentEventRouter.unregister_agent: the two maps afterwards
RouterUnregistered(ap, pta, name) ==
    LET paths == IF name \in DOMAIN ap THEN ap[name] ELSE {}
        keep == {q \in DOMAIN pta : ~(q \in paths /\ pta[q] \subseteq {name})}
    IN [agentPaths |-> [n \in DOMAIN ap \ {name} |-> ap[n]],
        pathToAgents |-> [q \in keep |-> IF q \in paths THEN pta[q] \ {name}
                                         ELSE pta[q]]]

\* AgentEventRouter.get_affected_agents; is_dir() asks the file system
AffectedAgents(pta, dirs, changed) ==
    UNION {pta[q] : q \in {r \in DOMAIN pta :
                              r = changed \/ (r \in dirs /\ IsUnder(changed, r))}}

\* the watch a path gets: itself, recursively, when it is a directory, else
\* its parent, not recursively; none when the directory to watch is missing
WatchFor(path, dirs) ==
    IF path \in dirs THEN {[dir |-> path, recursive |-> TRUE]}
    ELSE IF Parent(path) \in dirs THEN {[dir |-> Parent(path), recursive |-> FALSE]}
    ELSE {}

\* FileWatcherService.register_agent, lines 317-340: the watch map after the
\* loop over paths; observer.schedule raises for the paths of failing
AddWatches(wh, paths, dirs, failing) ==
    LET new == {q \in paths \ DOMAIN wh : WatchFor(q, dirs) # {} /\ q \notin failing}
    IN [q \in DOMAIN wh \cup new |->
          IF q \in DOMAIN wh THEN wh[q] ELSE CHOOSE w \in WatchFor(q, dirs) : TRUE]

(* ---------------------------------------------------------------------- *)
(* nanocrew.config.migration: ensure_agent_workspace                       *)
(* ---------------------------------------------------------------------- *)
\* the template files, lines 32-100, in the order they are written, and the
\* memory files, lines 109-133
TemplateNames == <<"AGENTS.md", "SOUL.md", "USER.md">>
MemoryNames == <<"MEMORY.md", "HISTORY.md">>

WorkspaceFiles(ws) ==
    {ws \o <<TemplateNames[i]>> : i \in DOMAIN TemplateNames}
    \cup {ws \o <<"memory", MemoryNames[i]>> : i \in DOMAIN MemoryNames}

\* the workspaces of the registry's definitions
RegistryWorkspaces == {MkDef(n, 7).workspace : n \in AgentNames}

AllWorkspaceFiles ==
    UNION {WorkspaceFiles(ws) : ws \in Workspaces \cup RegistryWorkspaces}

\* what a file holds: nothing (it does not exist), what a user wrote, or a
\* template; AGENTS.md and SOUL.md are f-strings naming the agent
Absent == <<"absent">>
UserContent == <<"user">>
TemplateOf(path, name) ==
    IF path[Len(path)] \in {"AGENTS.md", "SOUL.md"} THEN <<"template", name>>
    ELSE <<"template">>

\* a faulty version: it writes the templates over what is there
EnsureAgentWorkspaceOverwrites(fs, dirs, ws, name) ==
    [files |-> [f \in DOMAIN fs |->
                  IF f \in WorkspaceFiles(ws) THEN TemplateOf(f, name) ELSE fs[f]],
     dirs |-> dirs \cup {ws, ws \o <<"memory">>, ws \o <<"skills">>}]

\* ensure_agent_workspace(workspace, agent_name): the files and directories
\* afterwards
EnsureAgentWorkspace(fs, dirs, ws, name) ==
    IF fs[ws \o <<"AGENTS.md">>] # Absent
    THEN [files |-> fs, dirs |-> dirs]
    ELSE [files |-> [f \in DOMAIN fs |->
                       IF f \in WorkspaceFiles(ws) /\ fs[f] = Absent
                       THEN TemplateOf(f, name) ELSE fs[f]],
          dirs |-> dirs \cup {ws, ws \o <<"memory">>, ws \o <<"skills">>}]

\* _create_agent_loop, lines 97-101: workspace.mkdir(parents=True,
\* exist_ok=True), then _ensure_workspace_structure
CreateAgentLoopFiles(fs, dirs, ws, name) ==
    EnsureAgentWorkspace(fs, dirs \cup {SubSeq(ws, 1, n) : n \in 1..Len(ws)}, ws, name)

(* ---------------------------------------------------------------------- *)
(* The manager with the gateway's FileWatcherService                       *)
(* ---------------------------------------------------------------------- *)
\* ContextBuilder and SkillsLoader implement invalidate(path), so that the
\* isinstance tests of register_agent let them through
IsCacheInvalidator(kind) == kind \in {"context_builder", "skills_loader"}

\* the context builder and the skills loader of instance id of agent name
InvalidatorOf(name, id, kind) == [agent |-> name, inst |-> id, kind |-> kind]

\* FileWatcherService.register_agent, lines 307-312, called with loop.context
\* and loop.context.skills: register_invalidator appends each
RegisterAgentInvalidators(invs, name, id) ==
    invs \o (IF IsCacheInvalidator("context_builder")
             THEN <<InvalidatorOf(name, id, "context_builder")>> ELSE <<>>)
         \o (IF IsCacheInvalidator("skills_loader")
             THEN <<InvalidatorOf(name, id, "skills_loader")>> ELSE <<>>)

\* _do_invalidate, lines 134-139: the invalidators called for a path, in order
NotifiedInvalidators(invs, path) == invs

\* the files whose change is reported to the cache
SvcChangedPaths ==
    << <<"workspaces", "main", "AGENTS.md">>, <<"workspaces", "temp", "AGENTS.md">>,
       <<"workspaces", "temp", "skills", "a.md">> >>

(* ---------------------------------------------------------------------- *)
(* nanocrew.config.watcher.FileWatcherService._on_agent_added              *)
(* ---------------------------------------------------------------------- *)
\* range(10), line 238
Polls == 10
MaxAddTasks == 2

\* the handler's task when the event loop first runs it
NewAddTask(name, ws) == [name |-> name, ws |-> ws, polls |-> 0, pc |-> "poll", out |-> ""]

\* a faulty version: no second look at the workspace after the loop
AddedOutcomeUnchecked(exists) == "registered"

\* lines 243-248: the look at the workspace after the loop decides
AddedOutcome(exists) == IF exists THEN "registered" ELSE "absent"

\* lines 238-241: one more turn of the loop ends in the sleep when the loop is
\* not exhausted and the workspace is not there
SleepsAgain(polls, exists) == polls < Polls /\ ~exists

RouterInit ==
    /\ agentPaths = EmptyFn
    /\ pathToAgents = EmptyFn
    /\ watchHandlers = EmptyFn
    /\ fsDirs = {}
    /\ wsFiles = [f \in AllWorkspaceFiles |-> Absent]
    /\ addTasks = <<>>

(* ---------------------------------------------------------------------- *)
(* nanocrew.config.loader: migration of a parsed document                  *)
(* ---------------------------------------------------------------------- *)
\* a JSON object is a function from its keys; dict.get(k, default)
DictGet(d, k, default) == IF k \in DOMAIN d THEN d[k] ELSE default

\* d with d[k] = v, the key added when missing
DictSet(d, k, v) == [x \in DOMAIN d \cup {k} |-> IF x = k THEN v ELSE d[x]]

\* _migrate_config, lines 69-72: tools.exec.restrictToWorkspace moves up
MigrateTools(data) ==
    LET tools == DictGet(data, "tools", EmptyFn)
        exec_cfg == DictGet(tools, "exec", EmptyFn)
    IN IF "restrictToWorkspace" \in DOMAIN exec_cfg
          /\ "restrictToWorkspace" \notin DOMAIN tools
       THEN DictSet(data, "tools",
                    DictSet(DictSet(tools, "restrictToWorkspace",
                                    exec_cfg["restrictToWorkspace"]),
                            "exec", Without(exec_cfg, "restrictToWorkspace")))
       ELSE data

\* lines 82-90: the definition of main built from agents.defaults
MainFromDefaults(defaults) ==
    [workspace |-> DictGet(defaults, "workspace", "~/.nanocrew/workspaces/main"),
     model |-> DictGet(defaults, "model", "anthropic/claude-opus-4-5"),
     maxTokens |-> DictGet(defaults, "maxTokens", 8192),
     temperature |-> DictGet(defaults, "temperature", 7),
     maxToolIterations |-> DictGet(defaults, "maxToolIterations", 20),
     memoryWindow |-> DictGet(defaults, "memoryWindow", 50),
     systemPrompt |-> DictGet(defaults, "systemPrompt", "")]

\* _migrate_config, lines 75-92: registry is agents["registry"] when the key
\* is there and a new dict, attached to nothing, when it is not
MigrateAgents(data) ==
    LET agents == DictGet(data, "agents", EmptyFn)
    IN IF "defaults" \notin DOMAIN agents THEN data
       ELSE LET withMain ==
                   IF "registry" \in DOMAIN agents
                      /\ "main" \notin DOMAIN agents["registry"]
                   THEN DictSet(agents, "registry",
                                DictSet(agents["registry"], "main",
                                        MainFromDefaults(agents["defaults"])))
                   ELSE agents
            IN DictSet(data, "agents", Without(withMain, "defaults"))

\* _migrate_config
MigrateConfig(data) == MigrateAgents(MigrateTools(data))

\* the documents handed to the migration: agents absent, or with or without
\* defaults and registry; tools absent, old style, or both styles
OtherDef ==
    [workspace |-> "~/ws/backend", model |-> "m2", maxTokens |-> 4096, temperature |-> 2,
     maxToolIterations |-> 20, memoryWindow |-> 50, systemPrompt |-> ""]
DefaultsChoices ==
    {EmptyFn, [x \in {"model"} |-> "m1"],
     [x \in {"model", "temperature"} |-> IF x = "model" THEN "m1" ELSE 2]}
RegistryChoices ==
    {EmptyFn, [x \in {"backend"} |-> OtherDef], [x \in {"main"} |-> OtherDef],
     [x \in {"main", "backend"} |-> OtherDef]}
AgentsChoices ==
    {[x \in {"defaults"} |-> d] : d \in DefaultsChoices}
    \cup {[x \in {"registry"} |-> r] : r \in RegistryChoices}
    \cup {[x \in {"defaults", "registry"} |-> IF x = "defaults" THEN d ELSE r] :
            d \in DefaultsChoices, r \in RegistryChoices}
ToolsChoices ==
    {[x \in {"exec"} |-> [y \in {"restrictToWorkspace"} |-> TRUE]],
     [x \in {"exec"} |-> [y \in {"timeout"} |-> 60]],
     [x \in {"exec", "restrictToWorkspace"} |->
        IF x = "exec" THEN [y \in {"restrictToWorkspace"} |-> TRUE] ELSE FALSE]}
MigrateDocs ==
    {EmptyFn}
    \cup {[x \in {"agents"} |-> a] : a \in AgentsChoices}
    \cup {[x \in {"tools"} |-> t] : t \in ToolsChoices}
    \cup {[x \in {"agents", "tools"} |-> IF x = "agents" THEN a ELSE t] :
            a \in AgentsChoices, t \in ToolsChoices}

(* ---------------------------------------------------------------------- *)
(* nanocrew.config.loader: key conversion                                  *)
(* ---------------------------------------------------------------------- *)
\* a key is the sequence of its characters
LowerAlpha == <<"a", "b", "c", "d", "e", "f", "g", "h", "i", "j", "k", "l", "m",
                "n", "o", "p", "q", "r", "s", "t", "u", "v", "w", "x", "y", "z">>
UpperAlpha == <<"A", "B", "C", "D", "E", "F", "G", "H", "I", "J", "K", "L", "M",
                "N", "O", "P", "Q", "R", "S", "T", "U", "V", "W", "X", "Y", "Z">>

\* str.isupper, str.lower and str.upper of one character
IsUpper(c) == \E i \in DOMAIN UpperAlpha : UpperAlpha[i] = c
IsLower(c) == \E i \in DOMAIN LowerAlpha : LowerAlpha[i] = c
Lower(c) == IF IsUpper(c) THEN LowerAlpha[CHOOSE i \in DOMAIN UpperAlpha : UpperAlpha[i] = c]
            ELSE c
Upper(c) == IF IsLower(c) THEN UpperAlpha[CHOOSE i \in DOMAIN LowerAlpha : LowerAlpha[i] = c]
            ELSE c

\* camel_to_snake: "_" before every upper-case character but the first, all
\* characters lowered
RECURSIVE CamelToSnakeFrom(_, _)
CamelToSnakeFrom(name, i) ==
    IF i > Len(name) THEN <<>>
    ELSE (IF IsUpper(name[i]) /\ i > 1 THEN <<"_">> ELSE <<>>)
           \o <<Lower(name[i])>> \o CamelToSnakeFrom(name, i + 1)

CamelToSnake(name) == CamelToSnakeFrom(name, 1)

\* name.split("_")
RECURSIVE SplitUnderscore(_)
SplitUnderscore(name) ==
    IF name = <<>> THEN << <<>> >>
    ELSE LET r == SplitUnderscore(Tail(name))
         IN IF Head(name) = "_" THEN << <<>> >> \o r
            ELSE << <<Head(name)>> \o r[1] >> \o Tail(r)

\* str.title: a letter is raised after a non-letter and at the start, and
\* lowered after a letter
Title(x) ==
    [i \in 1..Len(x) |->
       IF IsUpper(x[i]) \/ IsLower(x[i])
       THEN IF i = 1 \/ ~(IsUpper(x[i - 1]) \/ IsLower(x[i - 1]))
            THEN Upper(x[i]) ELSE Lower(x[i])
       ELSE x[i]]

RECURSIVE JoinTitled(_)
JoinTitled(components) ==
    IF components = <<>> THEN <<>>
    ELSE Title(Head(components)) \o JoinTitled(Tail(components))

\* snake_to_camel
SnakeToCamel(name) ==
    LET components == SplitUnderscore(name)
    IN components[1] \o JoinTitled(Tail(components))

\* ":" in k
HasColon(k) == \E i \in DOMAIN k : k[i] = ":"

\* a faulty conversion: it converts the session keys as well
KeyConvAlways(k, mode) == IF mode = "snake" THEN CamelToSnake(k) ELSE SnakeToCamel(k)

\* the key a dict entry gets, lines 108-111 (load side) and 127-130 (save side)
KeyConv(k, mode) ==
    IF HasColon(k) THEN k
    ELSE IF mode = "snake" THEN CamelToSnake(k) ELSE SnakeToCamel(k)

\* JSON values: a scalar, a list of values, or a dict, which is the list of
\* its entries in insertion order
JLeaf(v) == [t |-> "leaf", leaf |-> v, items |-> <<>>]
JList(vs) == [t |-> "list", leaf |-> "",
              items |-> [i \in DOMAIN vs |-> [k |-> <<>>, v |-> vs[i]]]]
JDict(entries) == [t |-> "dict", leaf |-> "", items |-> entries]
NoDoc == [t |-> "none", leaf |-> "", items |-> <<>>]

\* result[k] = v on the entries of a dict: an existing key keeps its place
PutEntry(entries, k, v) ==
    IF \E i \in DOMAIN entries : entries[i].k = k
    THEN [i \in DOMAIN entries |-> IF entries[i].k = k THEN [k |-> k, v |-> v]
                                   ELSE entries[i]]
    ELSE Append(entries, [k |-> k, v |-> v])

\* convert_keys (mode "snake") and convert_to_camel (mode "camel"): the two
\* functions differ in the conversion of the keys only
RECURSIVE Convert(_, _)
RECURSIVE ConvertEntries(_, _, _)
ConvertEntries(entries, n, mode) ==
    IF n = 0 THEN <<>>
    ELSE PutEntry(ConvertEntries(entries, n - 1, mode),
                  KeyConv(entries[n].k, mode), Convert(entries[n].v, mode))

Convert(data, mode) ==
    IF data.t = "dict"
    THEN JDict(ConvertEntries(data.items, Len(data.items), mode))
    ELSE IF data.t = "list"
    THEN [data EXCEPT !.items = [i \in DOMAIN data.items |->
                                    [k |-> <<>>, v |-> Convert(data.items[i].v, mode)]]]
    ELSE data

ConvertKeys(data) == Convert(data, "snake")
ConvertToCamel(data) == Convert(data, "camel")

\* the keys of the documents
KeyAgents == <<"a", "g", "e", "n", "t", "s">>
KeyRegistry == <<"r", "e", "g", "i", "s", "t", "r", "y">>
KeyBindings == <<"b", "i", "n", "d", "i", "n", "g", "s">>
KeyMain == <<"m", "a", "i", "n">>
KeyMaxTokens == <<"m", "a", "x", "T", "o", "k", "e", "n", "s">>
KeyChannels == <<"c", "h", "a", "n", "n", "e", "l", "s">>

\* names an agent or a session can be given in the file
MaxNameLen == 3
NameChars == {"a", "B", "_", "1", ":"}
FreeNames == UNION {[1..n -> NameChars] : n \in 1..MaxNameLen}

\* a config file: main and one more agent in agents.registry, one session
\* bound in agents.bindings, and a list of objects
KeyDoc(name, session) ==
    JDict(<< [k |-> KeyAgents,
              v |-> JDict(<< [k |-> KeyRegistry,
                              v |-> JDict(<< [k |-> KeyMain,
                                              v |-> JDict(<< [k |-> KeyMaxTokens,
                                                              v |-> JLeaf("8192")] >>)],
                                             [k |-> name,
                                              v |-> JDict(<< [k |-> KeyMaxTokens,
                                                              v |-> JLeaf("4096")] >>)] >>)],
                             [k |-> KeyBindings,
                              v |-> JDict(<< [k |-> session, v |-> JLeaf("agent")] >>)] >>)],
             [k |-> KeyChannels,
              v |-> JList(<< JDict(<< [k |-> session, v |-> JLeaf("on")] >>) >>)] >>)

SessionKeys == {<<"f", ":", "a">>, <<"f", ":", "a", "_", "B">>, <<"F", ":", "x", "Y">>}
KeyDocs == {KeyDoc(n, sk) : n \in FreeNames \ {KeyMain}, sk \in SessionKeys}

\* Config.model_validate and Config.model_dump: the registry and the bindings
\* are dicts keyed by name and by session, and their keys are kept
ModelValidate(data) == data
ModelDump(cfg) == cfg

\* load_config, lines 36-39, on a document with nothing to migrate
LoadDoc(data) == ModelValidate(ConvertKeys(data))

\* save_config, lines 59-63
SaveDoc(cfg) == ConvertToCamel(ModelDump(cfg))

LoaderInit ==
    /\ jsonDoc = EmptyFn
    /\ migrated = EmptyFn
    /\ loaded = NoDoc
    /\ firstLoaded = NoDoc

(* ---------------------------------------------------------------------- *)
(* What an operation reports                                               *)
(* ---------------------------------------------------------------------- *)
\* the live instances whose agent a reload of this operation saw leave the
\* registry while the manager was subscribed
Evicting(r, lp) ==
    IF r.reloaded /\ Started THEN {lp[n].id : n \in r.removed \cap DOMAIN lp} ELSE {}

Lbl(op, arg, val, raised, evict) ==
    [op |-> op, arg |-> arg, val |-> val, raised |-> raised, evict |-> evict,
     flag |-> FALSE, out |-> "", data |-> EmptyFn]

\* an operation returning a boolean, a name, or a dict or definition
LblFlag(op, b, evict) == [Lbl(op, "", 0, FALSE, evict) EXCEPT !.flag = b]
LblOut(op, arg, name, evict) == [Lbl(op, arg, 0, FALSE, evict) EXCEPT !.out = name]
LblData(op, arg, d, evict) == [Lbl(op, arg, 0, FALSE, evict) EXCEPT !.data = d]

\* an operation that returns nothing a caller looks at
NoRet == Lbl("none", "", 0, FALSE, {})

ApplyReload(r) ==
    /\ config' = r.reg.config
    /\ lastMtime' = r.reg.lastMtime
    /\ lastAgents' = r.reg.lastAgents
    /\ emitQ' = emitQ \o r.tasks

(* ---------------------------------------------------------------------- *)
(* Initial state: the gateway has built AgentRegistry(load_config()) and   *)
(* the MultiAgentManager; asyncio.run has not been entered yet.            *)
(* ---------------------------------------------------------------------- *)
\* FileCache(): nothing cached, nothing pending, no invalidator; no publish
\* has been made
ServiceInit ==
    /\ pubs = <<>>
    /\ files \in [CachePaths -> {NoFile, FileV(1)}]
    /\ cache = EmptyFn
    /\ invalidators = <<>>
    /\ pendingInv = EmptyFn
    /\ timers = <<>>
    /\ callers = [c \in Callers |-> Idle]
    /\ now = 0
    /\ hist = [p \in CachePaths |-> NoHist]
    /\ RouterInit

UtilInit == ServiceInit /\ LoaderInit

AgentInit ==
    /\ diskDoc \in ValidDocs
    /\ diskMtime = 1
    /\ config = [registry |-> diskDoc.registry, bindings |-> diskDoc.bindings]
    /\ lastMtime = 1
    /\ lastAgents = DOMAIN diskDoc.registry
    /\ running = FALSE
    /\ subscribers = EmptyFn
    /\ emitQ = <<>>
    /\ loops = EmptyFn
    /\ nextId = 1
    /\ stopped = {}
    /\ sinceAdded = [n \in AgentNames |-> "none"]
    /\ ret = NoRet

Init == AgentInit /\ UtilInit /\ files = [p \in CachePaths |-> FileV(1)]

(* ---------------------------------------------------------------------- *)
(* Environment: somebody edits the config file; the gateway enters its     *)
(* event loop.                                                             *)
(* ---------------------------------------------------------------------- *)
\* adv = 0: the write lands within the timestamp granularity of the last one
WriteConfig(doc, adv) ==
    /\ diskMtime + adv <= MaxMtime
    /\ doc # diskDoc
    /\ diskDoc' = doc
    /\ diskMtime' = diskMtime + adv
    /\ ret' = NoRet
    /\ UNCHANGED <<config, lastMtime, lastAgents, running, subscribers, emitQ,
                   loops, nextId, stopped, sinceAdded, utilVars>>

RunLoop ==
    /\ ~running
    /\ running' = TRUE
    /\ ret' = NoRet
    /\ UNCHANGED <<diskDoc, diskMtime, config, lastMtime, lastAgents, subscribers,
                   emitQ, loops, nextId, stopped, sinceAdded, utilVars>>

(* ---------------------------------------------------------------------- *)
(* Registry reads                                                          *)
(* ---------------------------------------------------------------------- *)
ReloadCheck ==
    LET r == CheckReload(Reg, diskDoc, diskMtime, running) IN
    /\ ApplyReload(r)
    /\ ret' = LblFlag("reload_check", r.reloaded, Evicting(r, loops))
    /\ UNCHANGED <<diskDoc, diskMtime, running, subscribers, loops, nextId, stopped, sinceAdded, utilVars>>

ListAgents ==
    LET r == CheckReload(Reg, diskDoc, diskMtime, running) IN
    /\ ApplyReload(r)
    /\ ret' = LblData("list_agents", "", r.reg.config.registry, Evicting(r, loops))
    /\ UNCHANGED <<diskDoc, diskMtime, running, subscribers, loops, nextId, stopped, sinceAdded, utilVars>>

ListBindings ==
    LET r == CheckReload(Reg, diskDoc, diskMtime, running) IN
    /\ ApplyReload(r)
    /\ ret' = LblData("list_bindings", "", r.reg.config.bindings, Evicting(r, loops))
    /\ UNCHANGED <<diskDoc, diskMtime, running, subscribers, loops, nextId, stopped, sinceAdded, utilVars>>

GetAgentConfig(name) ==
    LET r == CheckReload(Reg, diskDoc, diskMtime, running) IN
    /\ ApplyReload(r)
    /\ ret' = LblData("get_agent_config", name, GetAgent(r.reg.config, name),
                      Evicting(r, loops))
    /\ UNCHANGED <<diskDoc, diskMtime, running, subscribers, loops, nextId, stopped, sinceAdded, utilVars>>

GetAgentNameForSession(s) ==
    LET r == CheckReload(Reg, diskDoc, diskMtime, running) IN
    /\ ApplyReload(r)
    /\ ret' = LblOut("get_agent_name_for_session", s,
                     AgentNameForSession(r.reg.config, s), Evicting(r, loops))
    /\ UNCHANGED <<diskDoc, diskMtime, running, subscribers, loops, nextId, stopped, sinceAdded, utilVars>>


(* ---------------------------------------------------------------------- *)
(* Manager operations                                                      *)
(* ---------------------------------------------------------------------- *)
\* get_loop once the name is resolved: r0 is the reload check already made
\* by the caller (get_loop_for_session), or NoReload; the caller op reports
\* what it was asked (arg) and the name it resolved (out).
GetLoopCore(op, arg, out, r0, name, fail) ==
    LET r1 == CheckReload(r0.reg, diskDoc, diskMtime, running)
        create == name \notin DOMAIN loops
        r2 == IF create THEN CheckReload(r1.reg, diskDoc, diskMtime, running)
              ELSE NoReload(r1.reg)
        def == GetAgent(r2.reg.config, name)
        built == create /\ fail # "create"
        raised == create /\ fail # "none"
    IN
    /\ create \/ fail = "none"
    /\ built => nextId <= MaxInst
    /\ config' = r2.reg.config
    /\ lastMtime' = r2.reg.lastMtime
    /\ lastAgents' = r2.reg.lastAgents
    /\ emitQ' = emitQ \o r0.tasks \o r1.tasks \o r2.tasks
    /\ loops' = GetLoopLoops(loops, name, def, fail, nextId)
    /\ nextId' = IF built THEN nextId + 1 ELSE nextId
    /\ ret' = [Lbl(op, arg, IF raised THEN 0 ELSE loops'[name].id, raised,
                   Evicting(r0, loops) \cup Evicting(r1, loops)) EXCEPT !.out = out]
    /\ UNCHANGED <<diskDoc, diskMtime, running, subscribers, stopped, sinceAdded>>

\* get_loop of a manager that was given no file watcher
GetLoopAs(op, arg, out, r0, name, fail) ==
    GetLoopCore(op, arg, out, r0, name, fail) /\ UNCHANGED utilVars

GetLoopFrom(op, r0, name, fail) == GetLoopAs(op, name, "", r0, name, fail)

\* the agent field of a cron job: unset, or a name
JobAgents == {"", "main", "temp"}

\* gateway.on_cron_job up to its first await: the name the job runs under,
\* then agent_manager.get_loop of it
CronAgentName(cfg, agent) ==
    LET agent_name == IF agent = "" THEN "main" ELSE agent
    IN IF agent_name \notin DOMAIN cfg.registry THEN "main" ELSE agent_name

OnCronJob(agent, fail) ==
    /\ running
    /\ GetLoopAs("on_cron_job", agent, CronAgentName(config, agent), NoReload(Reg),
                 CronAgentName(config, agent), fail)

GetLoop(name, fail) == GetLoopFrom("get_loop", NoReload(Reg), name, fail)

GetLoopForSession(s, fail) ==
    LET r0 == CheckReload(Reg, diskDoc, diskMtime, running) IN
    GetLoopFrom("get_loop_for_session", r0, AgentNameForSession(r0.reg.config, s), fail)

\* the dict is walked in insertion order, which is the order of construction
StoppedUpTo(lp, n) == {lp[m].id : m \in {k \in DOMAIN lp : lp[k].id <= lp[n].id}}

AllIds(lp) == {lp[m].id : m \in DOMAIN lp}

\* history: the live map was cleared after the agent.added handler ran
Retired(h) == [n \in DOMAIN h |-> IF h[n] = "none" THEN "none" ELSE "retired"]

\* reload_agents: stop() of failAt raises ("none": no stop raises)
ReloadAgents(failAt) ==
    IF failAt = "none"
    THEN LET r == CheckReload(Reg, diskDoc, diskMtime, running) IN
         /\ stopped' = stopped \cup AllIds(loops)
         /\ loops' = EmptyFn
         /\ ApplyReload(r)
         /\ sinceAdded' = Retired(sinceAdded)
         /\ ret' = Lbl("reload_agents", "", 0, FALSE, {})
         /\ UNCHANGED <<diskDoc, diskMtime, running, subscribers, nextId, utilVars>>
    ELSE /\ failAt \in DOMAIN loops
         /\ stopped' = stopped \cup StoppedUpTo(loops, failAt)
         /\ ret' = Lbl("reload_agents", "", 0, TRUE, {})
         /\ UNCHANGED <<diskDoc, diskMtime, config, lastMtime, lastAgents, running,
                        subscribers, emitQ, loops, nextId, sinceAdded, utilVars>>

\* cleanup: every stop() is attempted, its failure swallowed
Cleanup ==
    /\ stopped' = stopped \cup AllIds(loops)
    /\ loops' = EmptyFn
    /\ sinceAdded' = Retired(sinceAdded)
    /\ ret' = Lbl("cleanup", "", 0, FALSE, {})
    /\ UNCHANGED <<diskDoc, diskMtime, config, lastMtime, lastAgents, running,
                   subscribers, emitQ, nextId, utilVars>>

ManagerStart ==
    /\ running
    /\ ~Started
    /\ subscribers' = Subscribe(Subscribe(Subscribe(subscribers,
                          EVENT_AGENT_ADDED, "mgr_added"),
                          EVENT_AGENT_REMOVED, "mgr_removed"),
                          EVENT_AGENT_UPDATED, "mgr_updated")
    /\ ret' = NoRet
    /\ UNCHANGED <<diskDoc, diskMtime, config, lastMtime, lastAgents, running,
                   emitQ, loops, nextId, stopped, sinceAdded, utilVars>>

ManagerStop ==
    /\ running
    /\ Started
    /\ subscribers' = Unsubscribe(Unsubscribe(Unsubscribe(subscribers,
                          EVENT_AGENT_ADDED, "mgr_added"),
                          EVENT_AGENT_REMOVED, "mgr_removed"),
                          EVENT_AGENT_UPDATED, "mgr_updated")
    /\ ret' = NoRet
    /\ UNCHANGED <<diskDoc, diskMtime, config, lastMtime, lastAgents, running,
                   emitQ, loops, nextId, stopped, sinceAdded, utilVars>>

(* ---------------------------------------------------------------------- *)
(* AgentRegistry._emit_changes: one task per reload made in the loop       *)
(* ---------------------------------------------------------------------- *)
RemoveAt(q, i) == [j \in 1..(Len(q) - 1) |-> IF j < i THEN q[j] ELSE q[j + 1]]

\* publish returns without suspending when the topic has no handler, so the
\* task runs on to the first event that has one
Drain(t, subs) ==
    LET a == IF Snapshot(subs, EVENT_AGENT_ADDED) = <<>> THEN {} ELSE t.added
        r == IF a = {} /\ Snapshot(subs, EVENT_AGENT_REMOVED) = <<>> THEN {} ELSE t.removed
        u == IF a = {} /\ r = {} /\ Snapshot(subs, EVENT_AGENT_UPDATED) = <<>>
             THEN EmptyFn ELSE t.updated
    IN [t EXCEPT !.added = a, !.removed = r, !.updated = u, !.cur = <<>>, !.snap = <<>>]

\* a faulty emission: it walks the removed names before the added ones
NextEventsRemovedFirst(t) ==
    IF t.removed # {} THEN {<<EVENT_AGENT_REMOVED, n>> : n \in t.removed}
    ELSE IF t.added # {} THEN {<<EVENT_AGENT_ADDED, n>> : n \in t.added}
    ELSE {<<EVENT_AGENT_UPDATED, n>> : n \in DOMAIN t.updated}

\* the events the task can publish next: added names first, then removed,
\* then updated (sets and dicts are walked in no order the model fixes)
NextEvents(t) ==
    IF t.added # {} THEN {<<EVENT_AGENT_ADDED, n>> : n \in t.added}
    ELSE IF t.removed # {} THEN {<<EVENT_AGENT_REMOVED, n>> : n \in t.removed}
    ELSE {<<EVENT_AGENT_UPDATED, n>> : n \in DOMAIN t.updated}

\* EventBus.publish up to asyncio.gather: snapshot, one task per handler
Publish(t, ev, subs) ==
    LET snap == Snapshot(subs, ev[1]) IN
    [added |-> t.added \ (IF ev[1] = EVENT_AGENT_ADDED THEN {ev[2]} ELSE {}),
     removed |-> t.removed \ (IF ev[1] = EVENT_AGENT_REMOVED THEN {ev[2]} ELSE {}),
     updated |-> IF ev[1] = EVENT_AGENT_UPDATED THEN Without(t.updated, ev[2])
                 ELSE t.updated,
     cur |-> ev, snap |-> snap, pending |-> DOMAIN snap]

\* the task runs from its start, or from the return of gather, to its next
\* suspension or its end
EmitStep(i) ==
    /\ i \in DOMAIN emitQ
    /\ emitQ[i].pending = {}
    /\ LET d == Drain(emitQ[i], subscribers) IN
       IF NextEvents(d) = {}
       THEN emitQ' = RemoveAt(emitQ, i)
       ELSE \E ev \in NextEvents(d) :
               emitQ' = [emitQ EXCEPT ![i] = Publish(d, ev, subscribers)]
    /\ ret' = NoRet
    /\ UNCHANGED <<diskDoc, diskMtime, config, lastMtime, lastAgents, running,
                   subscribers, loops, nextId, stopped, sinceAdded, utilVars>>

\* _handle_agent_added
HandleAgentAdded(i, k, fail) ==
    LET name == emitQ[i].cur[2]
        create == name \notin DOMAIN loops
        r == IF create THEN CheckReload(Reg, diskDoc, diskMtime, running)
             ELSE NoReload(Reg)
        def == GetAgent(r.reg.config, name)
        built == create /\ fail # "create" /\ nextId <= MaxInst
        f == IF create /\ nextId > MaxInst THEN "create" ELSE fail
        outcome == IF ~create THEN "present"
                   ELSE IF f = "create" THEN "create_failed"
                   ELSE IF f = "register" THEN "register_failed" ELSE "created"
    IN
    /\ create \/ fail = "none"
    /\ config' = r.reg.config
    /\ lastMtime' = r.reg.lastMtime
    /\ lastAgents' = r.reg.lastAgents
    /\ emitQ' = [emitQ EXCEPT ![i].pending = @ \ {k}] \o r.tasks
    /\ loops' = HandleAgentAddedLoops(loops, name, def, f, nextId)
    /\ nextId' = IF built THEN nextId + 1 ELSE nextId
    /\ stopped' = stopped
    /\ sinceAdded' = [sinceAdded EXCEPT
                        ![name] = IF outcome = "create_failed" THEN "failed" ELSE "ok"]
    /\ ret' = LblOut("handle_agent_added", name, outcome, Evicting(r, loops))

\* _handle_agent_removed: the instance is popped, then sent stop
HandleAgentRemoved(i, k) ==
    LET name == emitQ[i].cur[2] IN
    /\ loops' = HandleAgentRemovedLoops(loops, name)
    /\ stopped' = stopped \cup (IF name \in DOMAIN loops THEN {loops[name].id} ELSE {})
    /\ emitQ' = [emitQ EXCEPT ![i].pending = @ \ {k}]
    /\ sinceAdded' = [sinceAdded EXCEPT ![name] = "none"]
    /\ ret' = Lbl("handle_agent_removed", name,
                  IF name \in DOMAIN loops THEN loops[name].id ELSE 0, FALSE, {})
    /\ UNCHANGED <<config, lastMtime, lastAgents, nextId>>

\* a faulty handler: it retires the instance of the updated agent
HandleAgentUpdatedRetires(i, k) ==
    LET name == emitQ[i].cur[2] IN
    /\ loops' = HandleAgentRemovedLoops(loops, name)
    /\ stopped' = stopped \cup (IF name \in DOMAIN loops THEN {loops[name].id} ELSE {})
    /\ emitQ' = [emitQ EXCEPT ![i].pending = @ \ {k}]
    /\ ret' = Lbl("handle_agent_updated", name, 0, FALSE, {})
    /\ UNCHANGED <<config, lastMtime, lastAgents, nextId, sinceAdded>>

\* _handle_agent_updated: logs only
HandleAgentUpdated(i, k) ==
    /\ emitQ' = [emitQ EXCEPT ![i].pending = @ \ {k}]
    /\ ret' = Lbl("handle_agent_updated", emitQ[i].cur[2], 0, FALSE, {})
    /\ UNCHANGED <<config, lastMtime, lastAgents, loops, nextId, stopped, sinceAdded>>

\* a handler of another subscriber of the lifecycle topics: it returns or
\* raises, and touches neither the registry nor the manager
HandleOther(i, k) ==
    /\ emitQ' = [emitQ EXCEPT ![i].pending = @ \ {k}]
    /\ ret' = Lbl("handle_other", emitQ[i].cur[2], 0, FALSE, {})
    /\ UNCHANGED <<config, lastMtime, lastAgents, loops, nextId, stopped, sinceAdded>>

\* one handler task of a publish in progress runs (_safe_call)
RunHandlerCore(i, k, fail) ==
    /\ i \in DOMAIN emitQ
    /\ k \in emitQ[i].pending
    /\ CASE emitQ[i].snap[k] = "mgr_added" -> HandleAgentAdded(i, k, fail)
         [] emitQ[i].snap[k] = "mgr_removed" -> fail = "none" /\ HandleAgentRemoved(i, k)
         [] emitQ[i].snap[k] = "mgr_updated" -> fail = "none" /\ HandleAgentUpdated(i, k)
         [] emitQ[i].snap[k] \in BusHandlers -> fail = "none" /\ HandleOther(i, k)
    /\ UNCHANGED <<diskDoc, diskMtime, running, subscribers>>

\* the handlers of a manager that was given no file watcher
RunHandler(i, k, fail) == RunHandlerCore(i, k, fail) /\ UNCHANGED utilVars

(* ---------------------------------------------------------------------- *)
(* The bus under publishers and handlers of any kind                       *)
(* ---------------------------------------------------------------------- *)
BusSubscribe(topic, h) ==
    /\ Len(Snapshot(subscribers, topic)) < MaxSubs
    /\ subscribers' = Subscribe(subscribers, topic, h)
    /\ ret' = NoRet
    /\ UNCHANGED <<agentVars, utilVars>>

BusUnsubscribe(topic, h) ==
    /\ subscribers' = Unsubscribe(subscribers, topic, h)
    /\ ret' = NoRet
    /\ UNCHANGED <<agentVars, utilVars>>

\* publish up to its suspension in gather, or to its return when the topic
\* has no handler
BusPublish(topic) ==
    /\ Len(pubs) < MaxPubs
    /\ pubs' = Append(pubs, NewPublish(subscribers, topic))
    /\ ret' = NoRet
    /\ UNCHANGED <<agentVars, subscribers, sideVars, cacheVars>>

\* _safe_call: the handler runs and returns, or raises
BusHandlerRun(p, k, outcome) ==
    /\ p \in DOMAIN pubs
    /\ k \in DOMAIN pubs[p].st
    /\ Startable(pubs[p].st, k)
    /\ pubs' = [pubs EXCEPT ![p].st[k] = outcome,
                            ![p].heard[k] = HandlerAt(pubs[p], subscribers, k)]
    /\ ret' = NoRet
    /\ UNCHANGED <<agentVars, subscribers, sideVars, cacheVars>>

\* _safe_call: the handler is called and suspends at an await of its own
BusHandlerSuspend(p, k) ==
    /\ p \in DOMAIN pubs
    /\ k \in DOMAIN pubs[p].st
    /\ Startable(pubs[p].st, k)
    /\ pubs' = [pubs EXCEPT ![p].st[k] = "suspended",
                            ![p].heard[k] = HandlerAt(pubs[p], subscribers, k)]
    /\ ret' = NoRet
    /\ UNCHANGED <<agentVars, subscribers, sideVars, cacheVars>>

\* a suspended handler resumes and returns, or raises
BusHandlerResume(p, k, outcome) ==
    /\ p \in DOMAIN pubs
    /\ k \in DOMAIN pubs[p].st
    /\ pubs[p].st[k] = "suspended"
    /\ pubs' = [pubs EXCEPT ![p].st[k] = outcome]
    /\ ret' = NoRet
    /\ UNCHANGED <<agentVars, subscribers, sideVars, cacheVars>>

\* the publisher resumes from gather
BusPublishReturn(p) ==
    /\ p \in DOMAIN pubs
    /\ pubs[p].result = "pending"
    /\ GatherResult(pubs[p].st) # "pending"
    /\ pubs' = [pubs EXCEPT ![p].result = GatherResult(pubs[p].st)]
    /\ ret' = NoRet
    /\ UNCHANGED <<agentVars, subscribers, sideVars, cacheVars>>

(* ---------------------------------------------------------------------- *)
(* FileCache operations                                                    *)
(* ---------------------------------------------------------------------- *)
\* somebody edits a cached file, or creates it
FileWrite(p) ==
    /\ files[p].mtime < MaxFileVer
    /\ files[p].content < MaxContent
    /\ files' = [files EXCEPT ![p] = [mtime |-> @.mtime + 1, content |-> @.content + 1]]
    /\ ret' = NoRet
    /\ UNCHANGED <<agentVars, subscribers, sideVars, pubs, cache, invalidators, pendingInv,
                   timers, callers, now, hist>>

\* somebody edits a cached file and its st_mtime stays what it was (a write
\* within the resolution of the timestamp, or one that restores it)
FileRewrite(p) ==
    /\ files[p] # NoFile
    /\ files[p].content < MaxContent
    /\ files' = [files EXCEPT ![p].content = @ + 1]
    /\ ret' = NoRet
    /\ UNCHANGED <<agentVars, subscribers, sideVars, pubs, cache, invalidators, pendingInv,
                   timers, callers, now, hist>>

\* get(p); the label tells which failure the call met, if any (out), what
\* was returned (val), whether read_text was called (flag)
Get(p, between) ==
    LET g == CacheGet(cache, files, p, between)
        hit == p \in DOMAIN cache /\ cache[p].mtime = files[p].mtime
    IN
    /\ between # "none" => files[p] # NoFile
    /\ between \notin {"none", "vanish"} => ~hit
    /\ between = "write"
          => files[p].mtime < MaxFileVer /\ files[p].content < MaxContent
    /\ cache' = g.cache
    /\ files' = g.files
    /\ ret' = [Lbl("cache_get", p, g.val, g.raised, {}) EXCEPT
                  !.flag = g.read,
                  !.out = IF between \in {"none", "write"} THEN "" ELSE between]
    /\ UNCHANGED <<agentVars, subscribers, sideVars, pubs, invalidators, pendingInv,
                   timers, callers, now, hist>>

\* register_invalidator; an invalidator object is registered once
RegisterInvalidator(i) ==
    /\ \A k \in DOMAIN invalidators : invalidators[k] # i
    /\ invalidators' = Append(invalidators, i)
    /\ ret' = NoRet
    /\ UNCHANGED <<agentVars, subscribers, sideVars, pubs, files, cache, pendingInv,
                   timers, callers, now, hist>>

\* invalidate(p), from the call to its return or to its suspension in
\* "await self._pending_invalidations[path]"
InvalidateBody(c, p) ==
    LET waits == p \in DOMAIN pendingInv /\ ~Finished(timers, pendingInv[p])
        overlapped == \E d \in Callers \ {c} :
                         callers[d].pc = "awaiting" /\ callers[d].path = p
    IN
    /\ callers[c].pc = "idle"
    /\ now + DebounceTicks <= MaxTime
    /\ Len(timers) + Cardinality({d \in Callers : callers[d].pc = "awaiting"}) < MaxTimers
    /\ hist' = [hist EXCEPT ![p] = Called(@, now, overlapped)]
    /\ IF waits
       THEN /\ timers' = CancelTask(timers, pendingInv[p])
            /\ callers' = [callers EXCEPT ![c] =
                              [Idle EXCEPT !.pc = "awaiting", !.path = p,
                                           !.task = pendingInv[p]]]
            /\ UNCHANGED pendingInv
       ELSE /\ timers' = Append(timers, NewTimer(p))
            /\ pendingInv' = SetKey(pendingInv, p, Len(timers) + 1)
            /\ UNCHANGED callers
    /\ UNCHANGED <<agentVars, subscribers, sideVars, pubs, files, cache, invalidators, now>>

Invalidate(c, p) == InvalidateBody(c, p) /\ ret' = NoRet

\* the events watchdog hands to on_modified, and the threads it can be
\* called on: the observer's own thread, or the thread of the event loop
EventKinds == {"file_modified", "dir_modified", "other"}
Threads == {"observer", "loop"}

\* on_modified, lines 144-160: whether the event makes it create the task
\* of cache.invalidate(path); asyncio.get_running_loop() raises RuntimeError
\* on a thread that runs no event loop
SchedulesInvalidate(kind, thread) == kind = "file_modified" /\ thread = "loop"

\* AgentFileEventHandler.on_modified, with the start of the task it creates
OnModified(c, p, kind, thread) ==
    /\ IF SchedulesInvalidate(kind, thread)
       THEN InvalidateBody(c, p)
       ELSE UNCHANGED <<agentVars, subscribers, sideVars, pubs, cacheVars>>
    /\ ret' = [LblOut("on_modified", p, kind, {}) EXCEPT
                  !.flag = SchedulesInvalidate(kind, thread)]

\* the awaited task has ended: invalidate goes on to create_task
InvalidateResume(c) ==
    /\ callers[c].pc = "awaiting"
    /\ Finished(timers, callers[c].task)
    /\ timers' = Append(timers, NewTimer(callers[c].path))
    /\ pendingInv' = SetKey(pendingInv, callers[c].path, Len(timers) + 1)
    /\ callers' = [callers EXCEPT ![c] = Idle]
    /\ ret' = NoRet
    /\ UNCHANGED <<agentVars, subscribers, sideVars, pubs, files, cache, invalidators, now, hist>>

\* _do_invalidate starts and suspends in asyncio.sleep
TimerStart(t) ==
    /\ t \in DOMAIN timers
    /\ timers[t].state = "created"
    /\ timers' = [timers EXCEPT ![t].state = "sleeping",
                                ![t].deadline = now + DebounceTicks]
    /\ ret' = NoRet
    /\ UNCHANGED <<agentVars, subscribers, sideVars, pubs, files, cache, invalidators,
                   pendingInv, callers, now, hist>>

\* the sleep is over: the entry is deleted under the lock, and the first
\* invalidator is called (an exception it raises is caught and logged); with
\* no invalidator the task ends at once
TimerFire(t) ==
    /\ t \in DOMAIN timers
    /\ timers[t].state = "sleeping"
    /\ now >= timers[t].deadline
    /\ LET p == timers[t].path
           h == [hist[p] EXCEPT !.execs = @ + 1, !.execAt = now,
                                !.dropped = @ + (IF p \in DOMAIN cache THEN 1 ELSE 0)]
       IN
       /\ cache' = Without(cache, p)
       /\ IF invalidators = <<>>
          THEN /\ timers' = [timers EXCEPT ![t].state = "done"]
               /\ pendingInv' = Without(pendingInv, p)
               /\ hist' = [hist EXCEPT ![p] = h]
          ELSE /\ timers' = [timers EXCEPT ![t].state = "running", ![t].pos = 1]
               /\ UNCHANGED pendingInv
               /\ hist' = [hist EXCEPT ![p] = [h EXCEPT !.cbs[invalidators[1]] = @ + 1]]
    /\ ret' = NoRet
    /\ UNCHANGED <<agentVars, subscribers, sideVars, pubs, files, invalidators, callers, now>>

\* the invalidator the task is suspended in returns or raises: the loop goes
\* on to the next one, or the task pops the path's pending entry and ends
TimerStep(t) ==
    /\ t \in DOMAIN timers
    /\ timers[t].state = "running"
    /\ LET p == timers[t].path
           k == timers[t].pos
       IN
       IF k < Len(invalidators)
       THEN /\ timers' = [timers EXCEPT ![t].pos = k + 1]
            /\ hist' = [hist EXCEPT ![p].cbs[invalidators[k + 1]] = @ + 1]
            /\ UNCHANGED pendingInv
       ELSE /\ timers' = [timers EXCEPT ![t].state = "done"]
            /\ pendingInv' = Without(pendingInv, p)
            /\ UNCHANGED hist
    /\ ret' = NoRet
    /\ UNCHANGED <<agentVars, subscribers, sideVars, pubs, files, cache, invalidators,
                   callers, now>>

\* clear_pending: every pending task is cancelled and the map emptied
ClearPending ==
    /\ timers' = CancelAll(timers, {pendingInv[p] : p \in DOMAIN pendingInv})
    /\ pendingInv' = EmptyFn
    /\ hist' = [p \in CachePaths |->
                  IF p \in DOMAIN pendingInv THEN [hist[p] EXCEPT !.disturbed = TRUE]
                  ELSE hist[p]]
    /\ ret' = NoRet
    /\ UNCHANGED <<agentVars, subscribers, sideVars, pubs, files, cache, invalidators,
                   callers, now>>

\* invalidate_all up to its first suspension in an invalidator, or to its
\* return: the entries are dropped under the lock, the pending tasks
\* cancelled and forgotten
InvalidateAll(c) ==
    LET paths == DOMAIN cache
        regs == {invalidators[k] : k \in DOMAIN invalidators}
        start == [Idle EXCEPT !.snap = paths, !.regs = regs]
    IN
    /\ callers[c].pc \in {"idle", "returned"}
    /\ cache' = EmptyFn
    /\ timers' = CancelAll(timers, {pendingInv[p] : p \in DOMAIN pendingInv})
    /\ pendingInv' = EmptyFn
    /\ hist' = [p \in CachePaths |->
                  IF p \in DOMAIN pendingInv THEN [hist[p] EXCEPT !.disturbed = TRUE]
                  ELSE hist[p]]
    /\ IF paths = {} \/ invalidators = <<>>
       THEN callers' = [callers EXCEPT ![c] = [start EXCEPT !.pc = "returned"]]
       ELSE \E p \in paths :
               callers' = [callers EXCEPT ![c] =
                             [start EXCEPT !.pc = "notifying", !.path = p, !.task = 1,
                                           !.todo = paths \ {p},
                                           !.cbs[invalidators[1]] = 1]]
    /\ ret' = Lbl("invalidate_all", "", 0, FALSE, {})
    /\ UNCHANGED <<agentVars, subscribers, sideVars, pubs, files, invalidators, now>>

\* the invalidator invalidate_all is suspended in returns or raises: the
\* loops go on to the next invalidator, to the next path, or to the end
InvalidateAllStep(c) ==
    LET k == callers[c].task IN
    /\ callers[c].pc = "notifying"
    /\ IF k < Len(invalidators)
       THEN callers' = [callers EXCEPT ![c].task = k + 1,
                                       ![c].cbs[invalidators[k + 1]] = @ + 1]
       ELSE IF callers[c].todo # {}
       THEN \E p \in callers[c].todo :
               callers' = [callers EXCEPT ![c].path = p, ![c].task = 1,
                                          ![c].todo = @ \ {p},
                                          ![c].cbs[invalidators[1]] = @ + 1]
       ELSE callers' = [callers EXCEPT ![c].pc = "returned", ![c].path = "",
                                       ![c].task = 0]
    /\ ret' = NoRet
    /\ UNCHANGED <<agentVars, subscribers, sideVars, pubs, files, cache, invalidators,
                   pendingInv, timers, now, hist>>

\* the clock advances once every task that is ready has run
Tick ==
    /\ now < MaxTime
    /\ \A t \in DOMAIN timers : timers[t].state # "created"
    /\ \A c \in Callers : callers[c].pc = "awaiting" => ~Finished(timers, callers[c].task)
    /\ now' = now + 1
    /\ ret' = NoRet
    /\ UNCHANGED <<agentVars, subscribers, sideVars, pubs, files, cache, invalidators,
                   pendingInv, timers, callers, hist>>

\* mkdir: a directory appears once its parent exists
MkDir(d) ==
    /\ d \notin fsDirs
    /\ Len(d) > 1 => Parent(d) \in fsDirs
    /\ fsDirs' = fsDirs \cup {d}
    /\ ret' = NoRet
    /\ UNCHANGED <<agentVars, subscribers, pubs, cacheVars, agentPaths, pathToAgents,
                   watchHandlers, wsFiles, loaderVars,
                   addTasks>>

\* AgentEventRouter.register_agent(name, workspace)
RouterRegister(name, ws) ==
    LET r == RouterRegistered(agentPaths, pathToAgents, name, ws)
    IN /\ agentPaths' = r.agentPaths
       /\ pathToAgents' = r.pathToAgents
       /\ ret' = Lbl("router_register", name, 0, FALSE, {})
       /\ UNCHANGED <<agentVars, subscribers, pubs, cacheVars, watchHandlers, fsDirs,
                      wsFiles, loaderVars,
                   addTasks>>

\* AgentEventRouter.unregister_agent(name)
RouterUnregister(name) ==
    LET r == RouterUnregistered(agentPaths, pathToAgents, name)
    IN /\ agentPaths' = r.agentPaths
       /\ pathToAgents' = r.pathToAgents
       /\ ret' = Lbl("router_unregister", name, 0, FALSE, {})
       /\ UNCHANGED <<agentVars, subscribers, pubs, cacheVars, watchHandlers, fsDirs,
                      wsFiles, loaderVars,
                   addTasks>>

\* the changed paths asked about: a registered file, a registered directory,
\* files under it, a sibling that shares its string prefix, an unregistered
\* file of a workspace
ChangedPaths ==
    << <<"w1", "AGENTS.md">>, <<"w1", "skills">>, <<"w1", "skills", "a.md">>,
       <<"w1", "skills2", "a.md">>, <<"w1", "notes.md">>,
       <<"w2", "AGENTS.md">>, <<"w2", "skills", "a.md">> >>

\* AgentEventRouter.get_affected_agents(ChangedPaths[i]); the returned set is
\* reported as its membership function
GetAffectedAgents(i) ==
    LET affected == AffectedAgents(pathToAgents, fsDirs, ChangedPaths[i])
    IN /\ ret' = [Lbl("get_affected_agents", "", i, FALSE, {})
                    EXCEPT !.data = [n \in RouterNames |-> n \in affected]]
       /\ UNCHANGED <<agentVars, subscribers, utilVars>>

\* FileWatcherService.register_agent(name, workspace) with no context builder
\* and no skills loader; observer.schedule raises for the paths of failing
WatcherRegister(name, ws, failing) ==
    LET r == RouterRegistered(agentPaths, pathToAgents, name, ws)
    IN /\ agentPaths' = r.agentPaths
       /\ pathToAgents' = r.pathToAgents
       /\ watchHandlers' = AddWatches(watchHandlers, AgentFilePaths(ws), fsDirs, failing)
       /\ ret' = [Lbl("register_agent", name, 0, FALSE, {})
                    EXCEPT !.flag = \E q \in failing \ DOMAIN watchHandlers :
                                       WatchFor(q, fsDirs) # {}]
       /\ UNCHANGED <<agentVars, subscribers, pubs, cacheVars, fsDirs, wsFiles, loaderVars,
                   addTasks>>

\* agent.added(name, workspace) reaches the watcher: the task of
\* _on_agent_added is created
OnAgentAdded(name, ws) ==
    /\ Len(addTasks) < MaxAddTasks
    /\ addTasks' = Append(addTasks, NewAddTask(name, ws))
    /\ ret' = NoRet
    /\ UNCHANGED <<agentVars, subscribers, pubs, cacheVars, agentPaths, pathToAgents,
                   watchHandlers, fsDirs, wsFiles, loaderVars>>

\* _on_agent_added from the head of the loop to its next suspension: either
\* the sleep of line 241, or, the loop left, the return of line 245 or the
\* registration and the watches of lines 248-252; observer.schedule raises
\* for the paths of failing
AddedPoll(t, failing) ==
    /\ t \in DOMAIN addTasks
    /\ addTasks[t].pc = "poll"
    /\ LET task == addTasks[t]
           exists == task.ws \in fsDirs
           polled == IF task.polls < Polls THEN task.polls + 1 ELSE task.polls
       IN IF SleepsAgain(task.polls, exists)
          THEN /\ addTasks' = [addTasks EXCEPT ![t].polls = polled, ![t].pc = "sleep"]
               /\ ret' = Lbl("on_agent_added", task.name, polled, FALSE, {})
               /\ failing = {}
               /\ UNCHANGED <<agentPaths, pathToAgents, watchHandlers>>
          ELSE /\ addTasks' = [addTasks EXCEPT ![t].polls = polled, ![t].pc = "done",
                                               ![t].out = AddedOutcome(exists)]
               /\ IF AddedOutcome(exists) = "registered"
                  THEN LET r == RouterRegistered(agentPaths, pathToAgents, task.name, task.ws)
                       IN /\ agentPaths' = r.agentPaths
                          /\ pathToAgents' = r.pathToAgents
                          /\ watchHandlers' = AddWatches(watchHandlers,
                                                         AgentFilePaths(task.ws), fsDirs,
                                                         failing)
                          /\ ret' = [LblOut("on_agent_added", task.name, "registered", {})
                                       EXCEPT !.val = polled,
                                              !.flag = \E q \in failing \ DOMAIN watchHandlers :
                                                          WatchFor(q, fsDirs) # {}]
                  ELSE /\ failing = {}
                       /\ ret' = [LblOut("on_agent_added", task.name, "absent", {})
                                     EXCEPT !.val = polled]
                       /\ UNCHANGED <<agentPaths, pathToAgents, watchHandlers>>
    /\ UNCHANGED <<agentVars, subscribers, pubs, cacheVars, fsDirs, wsFiles, loaderVars>>

\* asyncio.sleep(0.1) is over
AddedWake(t) ==
    /\ t \in DOMAIN addTasks
    /\ addTasks[t].pc = "sleep"
    /\ addTasks' = [addTasks EXCEPT ![t].pc = "poll"]
    /\ ret' = NoRet
    /\ UNCHANGED <<agentVars, subscribers, pubs, cacheVars, agentPaths, pathToAgents,
                   watchHandlers, fsDirs, wsFiles, loaderVars>>

\* what get_loop and _handle_agent_added do beyond the live map when they
\* have built an instance: _create_agent_loop makes the workspace, then
\* file_watcher.register_agent(name, workspace, loop.context,
\* loop.context.skills) (manager.py 137-145 and 258-265)
WatcherAttached(created, name) ==
    IF created
    THEN LET ws == loops'[name].workspace
             fsr == CreateAgentLoopFiles(wsFiles, fsDirs, ws, name)
             r == RouterRegistered(agentPaths, pathToAgents, name, ws)
         IN /\ wsFiles' = fsr.files
            /\ fsDirs' = fsr.dirs
            /\ invalidators' = RegisterAgentInvalidators(invalidators, name, loops'[name].id)
            /\ agentPaths' = r.agentPaths
            /\ pathToAgents' = r.pathToAgents
            /\ watchHandlers' = AddWatches(watchHandlers, AgentFilePaths(ws), fsr.dirs, {})
    ELSE UNCHANGED <<wsFiles, fsDirs, invalidators, agentPaths, pathToAgents,
                     watchHandlers>>

\* get_loop_for_session(s) of the gateway's manager
SvcGetLoopForSession(s) ==
    LET r0 == CheckReload(Reg, diskDoc, diskMtime, running)
        name == AgentNameForSession(r0.reg.config, s)
    IN /\ GetLoopCore("get_loop_for_session", name, "", r0, name, "none")
       /\ WatcherAttached(name \notin DOMAIN loops, name)
       /\ UNCHANGED <<pubs, files, cache, pendingInv, timers, callers, now, hist,
                      addTasks, loaderVars>>

\* one handler task of a publish in progress, of the gateway's manager
SvcRunHandler(i, k) ==
    /\ RunHandlerCore(i, k, "none")
    /\ WatcherAttached(DOMAIN loops' # DOMAIN loops /\ DOMAIN loops \subseteq DOMAIN loops',
                       emitQ[i].cur[2])
    /\ UNCHANGED <<pubs, files, cache, pendingInv, timers, callers, now, hist,
                   addTasks, loaderVars>>

\* a debounced invalidation of SvcChangedPaths[i] runs from the end of its
\* sleep to its end: the entry is dropped and the invalidators are called
DoInvalidate(i) ==
    LET path == SvcChangedPaths[i] IN
    /\ cache' = IF path \in DOMAIN cache THEN Without(cache, path) ELSE cache
    /\ ret' = [Lbl("do_invalidate", "", i, FALSE, {})
                 EXCEPT !.data = NotifiedInvalidators(invalidators, path)]
    /\ UNCHANGED <<agentVars, subscribers, pubs, files, invalidators, pendingInv, timers,
                   callers, now, hist, sideVars>>

\* get_affected_agents(SvcChangedPaths[i])
SvcGetAffectedAgents(i) ==
    LET affected == AffectedAgents(pathToAgents, fsDirs, SvcChangedPaths[i])
    IN /\ ret' = [Lbl("get_affected_agents", "", i, FALSE, {})
                    EXCEPT !.data = [n \in AgentNames |-> n \in affected]]
       /\ UNCHANGED <<agentVars, subscribers, utilVars>>

\* the documents written while the manager is observed: those over main and
\* temp, and the two that do not load
ManagerDocs == {d \in Docs : d.kind = "valid" => DOMAIN d.registry \subseteq {"main", "temp"}}
ManagerNames == {"main", "temp"}

(* The registry alone: reads of every kind against an edited config file. *)
Next ==
    \/ \E doc \in Docs, adv \in {0, 1} : WriteConfig(doc, adv)
    \/ RunLoop
    \/ ReloadCheck
    \/ ListAgents
    \/ ListBindings
    \/ \E n \in AgentNames : GetAgentConfig(n)
    \/ \E s \in Sessions : GetAgentNameForSession(s)
    \/ \E i \in 1..MaxMtime : EmitStep(i)

Spec == Init /\ [][Next]_vars

(* The registry with the manager and the event bus. *)
ManagerInit == Init /\ diskDoc \in ManagerDocs

ManagerNext ==
    \/ \E doc \in ManagerDocs : WriteConfig(doc, 1)
    \/ RunLoop
    \/ ReloadCheck
    \/ \E n \in ManagerNames, f \in FailPoints : GetLoop(n, f)
    \/ \E s \in Sessions, f \in FailPoints : GetLoopForSession(s, f)
    \/ \E n \in ManagerNames \cup {"none"} : ReloadAgents(n)
    \/ Cleanup
    \/ ManagerStart
    \/ ManagerStop
    \/ \E i \in 1..MaxMtime : EmitStep(i)
    \/ \E i \in 1..MaxMtime, k \in 1..3, f \in FailPoints : RunHandler(i, k, f)

ManagerSpec == ManagerInit /\ [][ManagerNext]_vars


(* The gateway: the manager was given the file watcher; the config file is *)
(* edited, sessions are served, the event loop runs the emission tasks and *)
(* the handlers, files of the workspaces change.                           *)
\* the config files written: they load, and a session they bind is bound to
\* an agent of their registry
SvcDocs ==
    {d \in ManagerDocs :
        /\ d.kind = "valid"
        /\ \A s \in DOMAIN d.bindings : d.bindings[s] \in DOMAIN d.registry}

SvcInit == Init /\ diskDoc \in SvcDocs

SvcNext ==
    \/ \E doc \in SvcDocs : WriteConfig(doc, 1)
    \/ RunLoop
    \/ ReloadCheck
    \/ \E s \in Sessions : SvcGetLoopForSession(s)
    \/ ReloadAgents("none")
    \/ Cleanup
    \/ ManagerStart
    \/ \E i \in 1..MaxMtime : EmitStep(i)
    \/ \E i \in 1..MaxMtime, k \in 1..3 : SvcRunHandler(i, k)
    \/ \E i \in DOMAIN SvcChangedPaths : DoInvalidate(i)
    \/ \E i \in DOMAIN SvcChangedPaths : SvcGetAffectedAgents(i)

SvcSpec == SvcInit /\ [][SvcNext]_vars


(* The gateway in operation: no shutdown (stop, cleanup) and no             *)
(* reload_agents; the event loop runs every task that is ready.            *)
OperateNext ==
    \/ \E doc \in ManagerDocs : WriteConfig(doc, 1)
    \/ RunLoop
    \/ ReloadCheck
    \/ \E n \in ManagerNames, f \in FailPoints : GetLoop(n, f)
    \/ \E s \in Sessions, f \in FailPoints : GetLoopForSession(s, f)
    \/ ManagerStart
    \/ \E i \in 1..MaxMtime : EmitStep(i)
    \/ \E i \in 1..MaxMtime, k \in 1..3, f \in FailPoints : RunHandler(i, k, f)

OperateSpec ==
    /\ ManagerInit
    /\ [][OperateNext]_vars
    /\ \A i \in 1..MaxMtime :
          /\ WF_vars(EmitStep(i))
          /\ WF_vars(\E k \in 1..3, f \in FailPoints : RunHandler(i, k, f))

(* One reload of every kind: the registry holds one config, the file      *)
(* another, written since, whose definitions differ from the old ones in   *)
(* any of their fields; the event loop runs.                               *)
AltValue ==
    [workspace |-> <<"workspaces", "alt">>, model |-> "model2", temperature |-> 2,
     max_tokens |-> 4096, max_tool_iterations |-> 10, memory_window |-> 25,
     system_prompt |-> "prompt"]

\* the definition of name with the fields of V set to other values
Variant(name, V) ==
    [f \in DOMAIN AltValue |-> IF f \in V THEN AltValue[f] ELSE MkDef(name, 7)[f]]

OldRegistries ==
    { [n \in {"main"} \cup B \cup T |->
          IF n = "backend" /\ alt THEN Variant(n, {"model"}) ELSE MkDef(n, 7)] :
        B \in SUBSET {"backend"}, T \in SUBSET {"temp"}, alt \in BOOLEAN }

NewRegistries ==
    { [n \in {"main"} \cup B \cup T |->
          IF n = "backend" THEN Variant(n, V)
          ELSE IF n = "main" THEN Variant(n, M) ELSE MkDef(n, 7)] :
        B \in SUBSET {"backend"}, T \in SUBSET {"temp"},
        V \in SUBSET DOMAIN AltValue,
        M \in {{}, {"temperature"}, {"temperature", "system_prompt"}} }

DiffInit ==
    /\ config \in { [registry |-> r, bindings |-> EmptyFn] : r \in OldRegistries }
    /\ diskDoc \in { [kind |-> "valid", registry |-> r, bindings |-> b] :
                       r \in NewRegistries, b \in BindingMaps }
    /\ diskMtime = 2
    /\ lastMtime = 1
    /\ lastAgents = DOMAIN config.registry
    /\ running = TRUE
    /\ subscribers = EmptyFn
    /\ emitQ = <<>>
    /\ loops = EmptyFn
    /\ nextId = 1
    /\ stopped = {}
    /\ sinceAdded = [n \in AgentNames |-> "none"]
    /\ ret = NoRet
    /\ UtilInit
    /\ files = [p \in CachePaths |-> FileV(1)]

DiffNext ==
    \/ ReloadCheck
    \/ ListAgents
    \/ \E i \in 1..MaxMtime : EmitStep(i)

DiffSpec == DiffInit /\ [][DiffNext]_vars

(* One reload and its emission task: the manager and another subscriber   *)
(* of the lifecycle topics subscribe at any moment, before the reload or   *)
(* during the dispatch.                                                    *)
LifecycleTopics == {EVENT_AGENT_ADDED, EVENT_AGENT_REMOVED, EVENT_AGENT_UPDATED}

\* the new registries whose definitions differ from the default ones in
\* their temperature at most
EmitRegistries ==
    {r \in NewRegistries :
        \A n \in DOMAIN r : r[n] \in {Variant(n, {}), Variant(n, {"temperature"})}}

EmitInit == DiffInit /\ diskDoc.registry \in EmitRegistries /\ diskDoc.bindings = EmptyFn

EmitNext ==
    \/ ManagerStart
    \/ \E tp \in LifecycleTopics : BusSubscribe(tp, "h1")
    \/ ReloadCheck
    \/ \E i \in 1..MaxMtime : EmitStep(i)
    \/ \E i \in 1..MaxMtime, k \in 1..3, f \in FailPoints : RunHandler(i, k, f)

EmitSpec == EmitInit /\ [][EmitNext]_vars

(* One reload seen by a manager that serves messages: instances are built *)
(* on demand before and after the reload, and definitions are read.        *)
UpdateNext ==
    \/ ManagerStart
    \/ ReloadCheck
    \/ \E n \in AgentNames : GetLoop(n, "none")
    \/ \E n \in AgentNames : GetAgentConfig(n)
    \/ \E i \in 1..MaxMtime : EmitStep(i)
    \/ \E i \in 1..MaxMtime, k \in 1..3 : RunHandler(i, k, "none")

UpdateSpec == EmitInit /\ [][UpdateNext]_vars

(* The bus alone: handlers come and go while events are published.        *)
BusInit == Init /\ diskDoc = [kind |-> "valid", registry |-> DefaultConfig.registry,
                              bindings |-> EmptyFn]

BusNext ==
    \/ \E tp \in BusTopics, h \in BusHandlers : BusSubscribe(tp, h)
    \/ \E tp \in BusTopics, h \in BusHandlers : BusUnsubscribe(tp, h)
    \/ \E tp \in BusTopics : BusPublish(tp)
    \/ \E p \in 1..MaxPubs, k \in 1..MaxSubs, o \in {"done", "failed"} :
          BusHandlerRun(p, k, o)
    \/ \E p \in 1..MaxPubs : BusPublishReturn(p)

BusSpec == BusInit /\ [][BusNext]_vars

(* One topic whose handlers may suspend: publishes run side by side, each  *)
(* with the handlers it copied.                                            *)
GatherNext ==
    \/ \E h \in BusHandlers : BusSubscribe("test.event", h)
    \/ BusPublish("test.event")
    \/ \E p \in 1..MaxPubs, k \in 1..MaxSubs, o \in {"done", "failed"} :
          BusHandlerRun(p, k, o)
    \/ \E p \in 1..MaxPubs, k \in 1..MaxSubs : BusHandlerSuspend(p, k)
    \/ \E p \in 1..MaxPubs, k \in 1..MaxSubs, o \in {"done", "failed"} :
          BusHandlerResume(p, k, o)
    \/ \E p \in 1..MaxPubs : BusPublishReturn(p)

GatherSpec == BusInit /\ [][GatherNext]_vars

\* the first step of a handler's task: the handler is called
HandlerStarts(p, k) ==
    \/ BusHandlerSuspend(p, k)
    \/ \E o \in {"done", "failed"} : BusHandlerRun(p, k, o)

\* The event loop runs the first step of every task it was given; nothing
\* makes a suspended handler resume.
GatherFairSpec ==
    GatherSpec /\ \A p \in 1..MaxPubs, k \in 1..MaxSubs : WF_vars(HandlerStarts(p, k))

(* The file cache alone: files are edited and read, callers ask for        *)
(* invalidations, the event loop runs the tasks that are ready and fires   *)
(* the timers that are due.                                                *)
\* the router and the watches, with the directories appearing meanwhile
RouterNext ==
    \/ \E d \in DirCandidates : MkDir(d)
    \/ \E n \in RouterNames, ws \in Workspaces : RouterRegister(n, ws)
    \/ \E n \in RouterNames : RouterUnregister(n)
    \/ \E i \in DOMAIN ChangedPaths : GetAffectedAgents(i)

RouterSpec == BusInit /\ [][RouterNext]_vars

\* a user writes a file of a workspace whose directory exists
UserWrite(f) ==
    /\ Parent(f) \in fsDirs
    /\ wsFiles' = [wsFiles EXCEPT ![f] = UserContent]
    /\ ret' = NoRet
    /\ UNCHANGED <<agentVars, subscribers, pubs, cacheVars, agentPaths, pathToAgents,
                   watchHandlers, fsDirs, loaderVars,
                   addTasks>>

\* a user deletes a file
UserDelete(f) ==
    /\ wsFiles[f] # Absent
    /\ wsFiles' = [wsFiles EXCEPT ![f] = Absent]
    /\ ret' = NoRet
    /\ UNCHANGED <<agentVars, subscribers, pubs, cacheVars, agentPaths, pathToAgents,
                   watchHandlers, fsDirs, loaderVars,
                   addTasks>>

\* ensure_agent_workspace(ws, name)
EnsureWorkspace(ws, name) ==
    LET r == EnsureAgentWorkspace(wsFiles, fsDirs, ws, name)
    IN /\ wsFiles' = r.files
       /\ fsDirs' = r.dirs
       /\ ret' = LblOut("ensure_agent_workspace", ws[1], name, {})
       /\ UNCHANGED <<agentVars, subscribers, pubs, cacheVars, agentPaths, pathToAgents,
                      watchHandlers, loaderVars,
                   addTasks>>

\* the file system part of _create_agent_loop(name, config), the workspace
\* of config being ws
CreateAgentLoopAt(ws, name) ==
    LET r == CreateAgentLoopFiles(wsFiles, fsDirs, ws, name)
    IN /\ wsFiles' = r.files
       /\ fsDirs' = r.dirs
       /\ ret' = LblOut("create_agent_loop", ws[1], name, {})
       /\ UNCHANGED <<agentVars, subscribers, pubs, cacheVars, agentPaths, pathToAgents,
                      watchHandlers, loaderVars,
                   addTasks>>

\* the workspace the file system actions work on
EnsureWs == <<"w1">>
EnsureDirs == {EnsureWs, EnsureWs \o <<"memory">>, EnsureWs \o <<"skills">>}

EnsureNext ==
    \/ \E d \in EnsureDirs : MkDir(d)
    \/ \E f \in WorkspaceFiles(EnsureWs) : UserWrite(f)
    \/ \E f \in WorkspaceFiles(EnsureWs) : UserDelete(f)
    \/ \E n \in RouterNames : EnsureWorkspace(EnsureWs, n)
    \/ \E n \in RouterNames : CreateAgentLoopAt(EnsureWs, n)

\* the schedule calls that may raise: none, or the one for skills
Failings == {{}} \cup {{ws \o <<"skills">>} : ws \in Workspaces}

WatcherNext ==
    \/ \E d \in DirCandidates : MkDir(d)
    \/ \E n \in RouterNames, ws \in Workspaces, f \in Failings : WatcherRegister(n, ws, f)

WatcherSpec == BusInit /\ [][WatcherNext]_vars

(* The watcher's agent.added handler: events for one workspace arrive, its  *)
(* directories appear at any moment, the event loop runs the handler tasks *)
(* and ends their sleeps.                                                  *)
AddedNext ==
    \/ \E d \in EnsureDirs : MkDir(d)
    \/ \E n \in RouterNames : OnAgentAdded(n, EnsureWs)
    \/ \E t \in 1..MaxAddTasks, f \in Failings : AddedPoll(t, f)
    \/ \E t \in 1..MaxAddTasks : AddedWake(t)

AddedSpec == BusInit /\ [][AddedNext]_vars

AddedFairSpec ==
    AddedSpec /\ \A t \in 1..MaxAddTasks :
                    /\ WF_vars(\E f \in Failings : AddedPoll(t, f))
                    /\ WF_vars(AddedWake(t))

\* the gateway with its cron service: the config file is edited, cron jobs
\* fire, definitions are looked up
CronNext ==
    \/ \E doc \in ManagerDocs : WriteConfig(doc, 1)
    \/ RunLoop
    \/ \E n \in ManagerNames : GetAgentConfig(n)
    \/ \E a \in JobAgents, f \in FailPoints : OnCronJob(a, f)
    \/ \E i \in 1..MaxMtime : EmitStep(i)

CronSpec == ManagerInit /\ [][CronNext]_vars

\* a document is put in the config file
PutDoc(doc) ==
    /\ jsonDoc' = doc
    /\ ret' = NoRet
    /\ UNCHANGED <<agentVars, subscribers, pubs, cacheVars, routerVars, migrated, loaded,
                   firstLoaded>>

\* data = _migrate_config(data), line 38 of load_config
RunMigrateConfig ==
    /\ migrated' = MigrateConfig(jsonDoc)
    /\ ret' = Lbl("migrate_config", "", 0, FALSE, {})
    /\ UNCHANGED <<agentVars, subscribers, pubs, cacheVars, routerVars, jsonDoc, loaded,
                   firstLoaded>>

MigrateNext ==
    \/ \E doc \in MigrateDocs : PutDoc(doc)
    \/ RunMigrateConfig

MigrateSpec == BusInit /\ [][MigrateNext]_vars

\* load_config(path) of the config file
LoadConfigFile ==
    /\ loaded' = LoadDoc(jsonDoc)
    /\ firstLoaded' = IF firstLoaded = NoDoc THEN loaded' ELSE firstLoaded
    /\ ret' = Lbl("load_config", "", 0, FALSE, {})
    /\ UNCHANGED <<agentVars, subscribers, pubs, cacheVars, routerVars, jsonDoc, migrated>>

\* save_config(config, path) of the config loaded
SaveConfigFile ==
    /\ loaded # NoDoc
    /\ jsonDoc' = SaveDoc(loaded)
    /\ ret' = Lbl("save_config", "", 0, FALSE, {})
    /\ UNCHANGED <<agentVars, subscribers, pubs, cacheVars, routerVars, migrated, loaded,
                   firstLoaded>>

KeyInit ==
    /\ AgentInit
    /\ diskDoc = [kind |-> "valid", registry |-> DefaultConfig.registry,
                  bindings |-> EmptyFn]
    /\ ServiceInit
    /\ files = [p \in CachePaths |-> FileV(1)]
    /\ jsonDoc \in KeyDocs
    /\ migrated = EmptyFn
    /\ loaded = NoDoc
    /\ firstLoaded = NoDoc

KeyNext ==
    \/ LoadConfigFile
    \/ SaveConfigFile

KeySpec == KeyInit /\ [][KeyNext]_vars

EnsureSpec == BusInit /\ [][EnsureNext]_vars

CacheInit == AgentInit /\ UtilInit
             /\ diskDoc = [kind |-> "valid", registry |-> DefaultConfig.registry,
                           bindings |-> EmptyFn]

CacheNext ==
    \/ \E p \in CachePaths : FileWrite(p)
    \/ \E p \in CachePaths, b \in {"none", "write", "delete"} : Get(p, b)
    \/ \E i \in InvNames : RegisterInvalidator(i)
    \/ \E c \in Callers, p \in CachePaths : Invalidate(c, p)
    \/ \E c \in Callers : InvalidateResume(c)
    \/ \E t \in 1..MaxTimers : TimerStart(t)
    \/ \E t \in 1..MaxTimers : TimerFire(t)
    \/ \E t \in 1..MaxTimers : TimerStep(t)
    \/ ClearPending
    \/ Tick

CacheSpec ==
    /\ CacheInit
    /\ [][CacheNext]_vars
    /\ WF_vars(Tick)
    /\ \A c \in Callers : WF_vars(InvalidateResume(c))
    /\ \A t \in 1..MaxTimers :
          WF_vars(TimerStart(t)) /\ WF_vars(TimerFire(t)) /\ WF_vars(TimerStep(t))

(* The file cache with its immediate invalidation: an agent's two          *)
(* invalidators are registered, entries are read in, debounced            *)
(* invalidations are asked for by two coroutines, and invalidate_all is    *)
(* called at any moment.                                                   *)
AllInit ==
    /\ AgentInit
    /\ diskDoc = [kind |-> "valid", registry |-> DefaultConfig.registry,
                  bindings |-> EmptyFn]
    /\ pubs = <<>>
    /\ files = [p \in CachePaths |-> FileV(1)]
    /\ cache = EmptyFn
    /\ invalidators = <<"context_builder", "skills_loader">>
    /\ pendingInv = EmptyFn
    /\ timers = <<>>
    /\ callers = [c \in Callers |-> Idle]
    /\ now = 0
    /\ hist = [p \in CachePaths |-> NoHist]
    /\ RouterInit
    /\ LoaderInit

AllNext ==
    \/ \E p \in CachePaths : Get(p, "none")
    \/ \E c \in Callers, p \in CachePaths : Invalidate(c, p)
    \/ \E c \in Callers : InvalidateResume(c)
    \/ \E t \in 1..MaxTimers : TimerStart(t)
    \/ \E t \in 1..MaxTimers : TimerFire(t)
    \/ \E t \in 1..MaxTimers : TimerStep(t)
    \/ \E c \in Callers : InvalidateAll(c)
    \/ \E c \in Callers : InvalidateAllStep(c)
    \/ Tick

AllSpec == AllInit /\ [][AllNext]_vars

(* The watcher's handler in front of the file cache: modification events *)
(* arrive on either thread, the event loop runs the tasks and the timers.  *)
WatchNext ==
    \/ \E c \in Callers, p \in CachePaths, k \in EventKinds, th \in Threads :
          OnModified(c, p, k, th)
    \/ \E p \in CachePaths : Get(p, "none")
    \/ \E c \in Callers : InvalidateResume(c)
    \/ \E t \in 1..MaxTimers : TimerStart(t)
    \/ \E t \in 1..MaxTimers : TimerFire(t)
    \/ \E t \in 1..MaxTimers : TimerStep(t)
    \/ Tick

WatchSpec == AllInit /\ [][WatchNext]_vars

(* The reads of the file cache against files that are edited, deleted or  *)
(* unreadable.                                                             *)
GetNext ==
    \/ \E p \in CachePaths : FileWrite(p)
    \/ \E p \in CachePaths : FileRewrite(p)
    \/ \E p \in CachePaths, b \in Betweens : Get(p, b)

GetSpec == CacheInit /\ [][GetNext]_vars

(* ---------------------------------------------------------------------- *)
(* Claims                                                                  *)
(* ---------------------------------------------------------------------- *)
ReadOps == {"reload_check", "list_agents", "list_bindings", "get_agent_config",
            "get_agent_name_for_session"}

\* C1: when the config file holds a document that does not parse or validate
\* and its mtime has advanced, a registry read leaves the in-memory config
\* as it was: list-agents returns the agents it had, reload-check returns
\* false and no emission of lifecycle events is scheduled.
C1_InvalidKeepsConfig ==
    [][ (/\ diskDoc.kind = "invalid"
         /\ diskMtime > lastMtime
         /\ ret'.op \in ReadOps)
        => (/\ config' = config
            /\ lastAgents' = lastAgents
            /\ emitQ' = emitQ
            /\ ret'.op = "reload_check" => ret'.flag = FALSE
            /\ ret'.op = "list_agents" => ret'.data = config.registry) ]_vars

\* C3: get-agent-name-for-session returns a key of the current registry or
\* "main", for every session and after every sequence of reloads.
C3_NameInRegistry ==
    ret.op = "get_agent_name_for_session"
        => ret.out \in DOMAIN config.registry \cup {"main"}

\* C5: reload-check returns true, replacing the config, exactly when the
\* file's mtime is greater than the cached one and the file loads; after a
\* true return the registry and the bindings are those on disk; with an mtime
\* not greater than the cached one it returns false and changes nothing.
C5_ReloadExactly ==
    [][ ret'.op = "reload_check"
        => (/\ ret'.flag = TRUE <=> (diskMtime > lastMtime /\ diskDoc.kind = "valid")
            /\ ret'.flag = TRUE => (/\ config'.registry = diskDoc.registry
                                   /\ config'.bindings = diskDoc.bindings)
            /\ ret'.flag = FALSE => config' = config
            /\ diskMtime <= lastMtime
                 => (/\ ret'.flag = FALSE
                     /\ UNCHANGED <<config, lastMtime, lastAgents>>)) ]_vars

\* C2: the names in the manager's live map are names of the current registry.
C2_LiveSubsetOfRegistry == ListActive(loops) \subseteq DOMAIN config.registry

\* C9: no two instances of the live map are bound to the same workspace.
C9_WorkspaceOwnedOnce ==
    \A a \in DOMAIN loops, b \in DOMAIN loops :
        a # b => loops[a].workspace # loops[b].workspace

RetireOps == {"handle_agent_removed", "reload_agents", "cleanup"}

C8_SameInstance ==
    [][ /\ \A n \in DOMAIN loops :
              IF n \in DOMAIN loops' THEN loops'[n] = loops[n]
              ELSE ret'.op \in RetireOps
        /\ (ret'.op \in {"get_loop", "get_loop_for_session"} /\ ~ret'.raised)
              => (/\ ret'.arg \in DOMAIN loops'
                  /\ ret'.val = loops'[ret'.arg].id
                  /\ ret'.arg \in DOMAIN loops => ret'.val = loops[ret'.arg].id) ]_vars

\* get-loop(X) has returned while the handler of a published agent.added(X)
\* had not run yet
C8_Witness ==
    /\ ret.op = "get_loop"
    /\ ~ret.raised
    /\ \E i \in DOMAIN emitQ :
          /\ emitQ[i].cur = <<EVENT_AGENT_ADDED, ret.arg>>
          /\ emitQ[i].pending # {}

\* the handler of agent.removed(X) takes X out of the live map and sends
\* stop to the instance it took out
C6_HandlerEvicts ==
    ret.op = "handle_agent_removed"
        => (/\ ret.arg \notin DOMAIN loops
            /\ ret.val # 0 => ret.val \in stopped)

\* an instance that was live for X when a reload saw X leave the registry is
\* eventually sent stop and is no longer in the live map
C6_Eventually ==
    \A id \in 1..MaxInst :
        (id \in ret.evict) ~> (id \in stopped /\ id \notin AllIds(loops))

\* C6: when a reload observes that X has left the registry while the started
\* manager holds a live instance of X, the manager eventually handles
\* agent.removed(X): the instance is sent stop and X leaves the live map.
C6_RemovedEvicted == []C6_HandlerEvicts /\ C6_Eventually

\* a reload has just seen the agent of a live instance leave the registry
C6_Witness == ret.evict # {} /\ Started

\* C10: a publish never raises to its caller, and when it returns every handler
\* of its snapshot has been invoked, those after a handler that raised
\* included.
C10_FailureIsolated ==
    \A p \in DOMAIN pubs :
        /\ pubs[p].result # "raised"
        /\ pubs[p].result = "returned"
              => \A k \in DOMAIN pubs[p].st : pubs[p].st[k] \in {"done", "failed"}

\* a publish has returned with one handler that raised and one that ran
C10_Witness ==
    \E p \in DOMAIN pubs :
        /\ pubs[p].result = "returned"
        /\ \E j, k \in DOMAIN pubs[p].st :
              pubs[p].st[j] = "failed" /\ pubs[p].st[k] = "done"

\* the calls of the current burst of invalidate(p) followed one another, none
\* overlapping another and no clear_pending among them
Consecutive(p) == hist[p].burst >= 2 /\ ~hist[p].disturbed

\* after N >= 2 consecutive calls the entry is deleted at most once, no
\* invalidator is called back twice, and nothing happens before the debounce
\* delay has elapsed since the last call
C4_AtMostOnceAndLate ==
    \A p \in CachePaths :
        Consecutive(p)
          => /\ hist[p].execs <= 1
             /\ hist[p].dropped <= 1
             /\ \A i \in InvNames : hist[p].cbs[i] <= 1
             /\ hist[p].execs = 1 => hist[p].execAt >= hist[p].lastCall + DebounceTicks

\* when the task of the burst ends, every registered invalidator has been
\* called back once
C4_EachNotified ==
    [][ \A t \in DOMAIN timers :
          (timers[t].state # "done" /\ timers'[t].state = "done"
             /\ Consecutive(timers[t].path))
          => \A k \in DOMAIN invalidators' :
                hist'[timers[t].path].cbs[invalidators'[k]] = 1 ]_vars

\* with no further call, the effect does take place
C4_Eventually ==
    \A p \in CachePaths, n \in 2..MaxTimers :
        (hist[p].burst = n /\ ~hist[p].disturbed)
          ~> (\/ hist[p].burst # n
              \/ hist[p].disturbed
              \/ hist[p].execs = 1 /\ p \notin DOMAIN pendingInv)

\* C4: N >= 2 consecutive invalidate(P) calls within one debounce delay,
\* followed by no further call, produce the invalidation exactly once: the
\* entry is removed once and each invalidator called back once, and only
\* after the delay has elapsed since the last call.
C4_DebouncedOnce == []C4_AtMostOnceAndLate /\ C4_EachNotified /\ C4_Eventually

\* the task of a burst of two calls or more has removed the entry, called
\* back two invalidators and ended
C4_Witness ==
    \E p \in CachePaths :
        /\ Consecutive(p)
        /\ hist[p].execs = 1
        /\ hist[p].dropped = 1
        /\ Len(invalidators) = 2
        /\ \A i \in InvNames : hist[p].cbs[i] = 1
        /\ p \notin DOMAIN pendingInv

Range(q) == {q[k] : k \in DOMAIN q}

\* the handlers a publish calls are those of its copy of the topic's list
C11_CallsItsSnapshot ==
    \A p \in DOMAIN pubs :
        \A k \in DOMAIN pubs[p].st :
            pubs[p].st[k] # "ready" => pubs[p].heard[k] = pubs[p].snap[k]

\* no topic of the subscriber table has an empty list
C11_NoEmptyTopic == \A tp \in DOMAIN subscribers : subscribers[tp] # <<>>

\* the copy is the topic's list at the moment of the publish and never
\* changes afterwards; a list that shrinks has lost every occurrence of a
\* handler, so that a later publish does not hold it
C11_SnapshotAtPublish ==
    [][ /\ \A p \in DOMAIN pubs : pubs'[p].snap = pubs[p].snap
        /\ Len(pubs') > Len(pubs)
              => pubs'[Len(pubs')].snap = Snapshot(subscribers, pubs'[Len(pubs')].topic)
        /\ \A tp \in BusTopics :
              Len(Snapshot(subscribers', tp)) < Len(Snapshot(subscribers, tp))
                => \E g \in Range(Snapshot(subscribers, tp)) :
                      g \notin Range(Snapshot(subscribers', tp)) ]_vars

\* C11: publish delivers the event to exactly the handlers subscribed to the
\* topic when it takes its snapshot: a handler unsubscribed before receives
\* nothing, a topic whose last handler was unsubscribed is deleted, and
\* subscribe/unsubscribe during the dispatch do not change who is called.
C11_SnapshotDelivery ==
    /\ []C11_CallsItsSnapshot
    /\ []C11_NoEmptyTopic
    /\ C11_SnapshotAtPublish

\* a handler of the copy has been called after it was unsubscribed during the
\* dispatch
C11_Witness ==
    \E p \in DOMAIN pubs :
        \E k \in DOMAIN pubs[p].st :
            /\ pubs[p].st[k] # "ready"
            /\ pubs[p].snap[k] \notin Range(Snapshot(subscribers, pubs[p].topic))
            /\ pubs[p].result = "pending"

\* the fields in which two definitions differ
Differing(oldDef, newDef) == {f \in DOMAIN AltValue : oldDef[f] # newDef[f]}

\* C12: a successful reload from agent names O to N computes added = N \ O,
\* removed = O \ N and updated = the names of both whose definition differs
\* in one of the seven fields, with exactly the differing fields reported;
\* when the three are empty (only bindings changed) nothing is to be
\* published.
C12_DiffSets ==
    [][ (ret'.op \in {"reload_check", "list_agents"} /\ lastMtime' # lastMtime)
        => LET O == DOMAIN config.registry
               N == DOMAIN config'.registry
               U == {n \in O \cap N :
                        Differing(config.registry[n], config'.registry[n]) # {}}
           IN IF N \ O = {} /\ O \ N = {} /\ U = {}
              THEN emitQ' = emitQ
              ELSE /\ Len(emitQ') = Len(emitQ) + 1
                   /\ SubSeq(emitQ', 1, Len(emitQ)) = emitQ
                   /\ LET t == emitQ'[Len(emitQ')] IN
                      /\ t.added = N \ O
                      /\ t.removed = O \ N
                      /\ DOMAIN t.updated = U
                      /\ \A n \in U :
                            /\ Range(t.updated[n])
                                 = Differing(config.registry[n], config'.registry[n])
                            /\ Len(t.updated[n]) = Cardinality(Range(t.updated[n]))
                      /\ t.pending = {} ]_vars

\* a reload has found an agent added, one removed and one updated in two
\* fields or more
C12_Witness ==
    /\ ret.op = "reload_check"
    /\ ret.flag
    /\ \E i \in DOMAIN emitQ :
          /\ emitQ[i].added # {}
          /\ emitQ[i].removed # {}
          /\ \E n \in DOMAIN emitQ[i].updated : Len(emitQ[i].updated[n]) >= 2

\* the emission task of the one reload publishes its next event
Publishes == emitQ # <<>> /\ emitQ' # <<>> /\ emitQ'[1].cur # emitQ[1].cur

\* a publish takes place only when every handler of the event before has
\* finished, and removes exactly its name from the names still to publish;
\* no agent.removed is published while an added name is left, no
\* agent.updated while an added or a removed name is left
C13_PublishInOrder ==
    [][ Publishes
        => LET t == emitQ[1]
               u == emitQ'[1]
               topic == u.cur[1]
               name == u.cur[2]
           IN /\ t.pending = {}
              /\ u.snap = Snapshot(subscribers, topic)
              /\ u.snap # <<>>
              /\ u.pending = DOMAIN u.snap
              /\ topic = EVENT_AGENT_ADDED
                    => (/\ name \in t.added
                        /\ u.added = t.added \ {name}
                        /\ u.removed = t.removed
                        /\ u.updated = t.updated)
              /\ topic = EVENT_AGENT_REMOVED
                    => (/\ u.added = {}
                        /\ name \in t.removed
                        /\ u.removed = t.removed \ {name}
                        /\ u.updated = t.updated)
              /\ topic = EVENT_AGENT_UPDATED
                    => (/\ u.added = {}
                        /\ u.removed = {}
                        /\ name \in DOMAIN t.updated
                        /\ u.updated = Without(t.updated, name)) ]_vars

\* the handlers that run are those of the event published last, each once;
\* the names still to publish do not change meanwhile
C13_HandlersOfCurrent ==
    [][ (emitQ # <<>> /\ ret'.op \in {"handle_agent_added", "handle_agent_removed",
                                      "handle_agent_updated", "handle_other"})
        => (/\ emitQ' # <<>>
            /\ emitQ'[1].cur = emitQ[1].cur
            /\ emitQ[1].cur[2] = ret'.arg
            /\ ret'.op = "handle_agent_added" => emitQ[1].cur[1] = EVENT_AGENT_ADDED
            /\ ret'.op = "handle_agent_removed"
                  => emitQ[1].cur[1] = EVENT_AGENT_REMOVED /\ emitQ[1].added = {}
            /\ ret'.op = "handle_agent_updated"
                  => (/\ emitQ[1].cur[1] = EVENT_AGENT_UPDATED
                      /\ emitQ[1].added = {}
                      /\ emitQ[1].removed = {})
            /\ Cardinality(emitQ'[1].pending) = Cardinality(emitQ[1].pending) - 1
            /\ emitQ'[1].pending \subseteq emitQ[1].pending
            /\ emitQ'[1].added = emitQ[1].added
            /\ emitQ'[1].removed = emitQ[1].removed
            /\ emitQ'[1].updated = emitQ[1].updated) ]_vars

\* the task ends only when its last handlers have finished and no name with
\* a subscribed topic is left to publish
C13_EndsWhenAllPublished ==
    [][ (emitQ # <<>> /\ emitQ' = <<>>)
        => (/\ emitQ[1].pending = {}
            /\ emitQ[1].added # {} => Snapshot(subscribers, EVENT_AGENT_ADDED) = <<>>
            /\ emitQ[1].removed # {} => Snapshot(subscribers, EVENT_AGENT_REMOVED) = <<>>
            /\ emitQ[1].updated # EmptyFn
                  => Snapshot(subscribers, EVENT_AGENT_UPDATED) = <<>>) ]_vars

\* one reload starts one emission task at most
C13_OneTask == Len(emitQ) <= 1

\* C13: for a single reload in a running event loop, the emission task
\* publishes one agent.added per added name, then one agent.removed per
\* removed name, then one agent.updated per updated name, and waits for the
\* handlers of each publish before the next: no agent.removed handler starts
\* before every agent.added handler has finished, no agent.updated handler
\* before every agent.removed handler has finished.
C13_EmissionOrder ==
    /\ []C13_OneTask
    /\ C13_PublishInOrder
    /\ C13_HandlersOfCurrent
    /\ C13_EndsWhenAllPublished

\* the manager's handler of agent.added has run, another handler of the
\* agent.removed published after it is still to run, and an agent.updated is
\* left to publish
C13_Witness ==
    /\ emitQ # <<>>
    /\ emitQ[1].cur # <<>>
    /\ emitQ[1].cur[1] = EVENT_AGENT_REMOVED
    /\ Cardinality(emitQ[1].pending) = 1
    /\ Len(emitQ[1].snap) = 2
    /\ emitQ[1].updated # EmptyFn
    /\ \E n \in AgentNames : sinceAdded[n] = "ok"

\* C14: whenever a handler runs for agent.added(X), the registry it reads
\* contains X: list-agents() called inside the handler, which checks for a
\* reload first, includes X, whatever the interleaving of config writes,
\* reload-checks and dispatch. (Stated for the moments when the config file
\* holds a document that loads.)
C14_AddedSeesAgent ==
    [][ (ret'.op = "handle_agent_added" /\ diskDoc.kind = "valid")
        => ret'.arg \in DOMAIN CheckReload(Reg, diskDoc, diskMtime, running).reg.config.registry
      ]_vars

C16_UpdatedKeepsInstance ==
    [][ /\ ret'.op = "handle_agent_updated"
           => (/\ loops' = loops
               /\ stopped' = stopped
               /\ nextId' = nextId
               /\ ret'.arg \in ListActive(loops) => ret'.arg \in ListActive(loops')
               /\ lastMtime' = diskMtime
               /\ GetAgent(config', ret'.arg) = diskDoc.registry[ret'.arg])
        /\ (ret'.op = "get_agent_config" /\ ret'.arg \in DOMAIN diskDoc.registry)
           => ret'.data = diskDoc.registry[ret'.arg] ]_vars

\* agent.updated(X) has just been handled while an instance of X is live
C16_Witness ==
    /\ ret.op = "handle_agent_updated"
    /\ ret.arg \in ListActive(loops)
    /\ config.registry[ret.arg].temperature = AltValue.temperature

\* C17: reload-agents() and cleanup() each send stop to every instance of
\* the live map and leave the map empty, building no replacement, also when
\* the stop of one instance fails.
C17_StopAllAndClear ==
    [][ ret'.op \in {"reload_agents", "cleanup"}
        => (/\ AllIds(loops) \subseteq stopped'
            /\ loops' = EmptyFn
            /\ nextId' = nextId) ]_vars

\* C18: when a step of the creation of the instance for a name fails
\* (workspace, construction, file-watcher registration), the name is not in
\* the live map afterwards; get-loop has raised to its caller, the
\* agent.added handler has returned normally to the publish that awaits it.
C18_FailedCreationNotLive ==
    [][ /\ (ret'.op \in {"get_loop", "get_loop_for_session"} /\ ret'.raised)
           => ret'.arg \notin DOMAIN loops'
        /\ (ret'.op = "handle_agent_added"
                /\ ret'.out \in {"create_failed", "register_failed"})
           => (/\ ret'.arg \notin DOMAIN loops'
               /\ ~ret'.raised
               /\ \E i \in DOMAIN emitQ :
                     /\ emitQ[i].cur = <<EVENT_AGENT_ADDED, ret'.arg>>
                     /\ emitQ'[i].pending # emitQ[i].pending) ]_vars

\* a get that met no failure returns the cached content without reading
\* exactly when the entry's mtime is the file's; otherwise it reads, stores
\* the mtime it saw with the content it read, and returns that content
C19_HitOrRead ==
    [][ (ret'.op = "cache_get" /\ ret'.out = ""
            /\ files[ret'.arg] # NoFile)
        => LET p == ret'.arg
               hit == p \in DOMAIN cache /\ cache[p].mtime = files[p].mtime
           IN /\ hit <=> ~ret'.flag
              /\ hit => (ret'.val = cache[p].content /\ cache' = cache)
              /\ ~hit => (/\ p \in DOMAIN cache'
                          /\ cache'[p] = [mtime |-> files[p].mtime,
                                          content |-> files'[p].content]
                          /\ ret'.val = files'[p].content
                          /\ \A q \in DOMAIN cache \ {p} :
                                q \in DOMAIN cache' /\ cache'[q] = cache[q]) ]_vars

\* what a get returned is what the cache holds for the path
C19_ReturnedIsCached ==
    (ret.op = "cache_get" /\ ~ret.raised /\ ret.val # 0)
        => (ret.arg \in DOMAIN cache /\ cache[ret.arg].content = ret.val)

\* a get that follows a get of the same path whose mtime has not changed
\* since returns the same content and reads nothing
C19_SecondGetSame ==
    [][ (/\ ret.op = "cache_get" /\ ret.val # 0 /\ ~ret.raised
         /\ ret'.op = "cache_get" /\ ret'.out = ""
         /\ ret.arg \in DOMAIN cache
         /\ files[ret.arg].mtime = cache[ret.arg].mtime)
        => (ret'.val = ret.val /\ ~ret'.flag /\ ~ret'.raised) ]_vars

\* C19: get(P) returns the cached content without reading the file exactly
\* when an entry for P exists whose mtime equals the file's current mtime;
\* otherwise it reads the file, stores {current mtime, content} and returns
\* the content. Two successive gets with unchanged mtime return the same
\* content, the second without a read; a get after the mtime changed
\* returns the new content.
C19_MtimeGatedCache ==
    /\ C19_HitOrRead
    /\ []C19_ReturnedIsCached
    /\ C19_SecondGetSame

\* a get has returned the cached content without a read, although the file
\* has been given another content under the same mtime
C19_Witness ==
    /\ ret.op = "cache_get"
    /\ ~ret.flag
    /\ ret.val # 0
    /\ files[ret.arg].content # ret.val
    /\ files[ret.arg].mtime = cache[ret.arg].mtime

\* C20: get(P) never raises: for a path that does not exist, a file that is
\* not valid UTF-8 or an I/O failure at any step of the call, the file
\* disappearing during the call included, it returns None and creates no
\* entry for P.
C20_GetNeverFails ==
    [][ ret'.op = "cache_get"
        => (/\ ~ret'.raised
            /\ (files[ret'.arg] = NoFile
                   \/ ret'.out \in {"vanish", "delete", "undecodable", "ioerror"})
                 => (/\ ret'.val = 0
                     /\ ret'.arg \notin DOMAIN cache
                           => ret'.arg \notin DOMAIN cache')) ]_vars

\* invalidate_all empties the cache and the pending map, and no task
\* created before the call can run after it
C21_ClearsAndCancels ==
    [][ ret'.op = "invalidate_all"
        => (/\ cache' = EmptyFn
            /\ pendingInv' = EmptyFn
            /\ \A t \in DOMAIN timers : Finished(timers', t)) ]_vars

\* when invalidate_all has returned, it has called each invalidator that was
\* registered once for each path that was cached
C21_EachNotifiedOnce ==
    \A c \in Callers :
        callers[c].pc = "returned"
          => \A i \in callers[c].regs : callers[c].cbs[i] = Cardinality(callers[c].snap)

\* C21: invalidate-all() leaves the cache with no entry and no pending
\* debounced invalidation, calls every registered invalidator exactly once
\* for each path that was cached when it was called, and no debounced
\* invalidation scheduled before the call fires after it.
C21_InvalidateAll == C21_ClearsAndCancels /\ []C21_EachNotifiedOnce

\* C22: after clear-pending() has returned, no debounced invalidation that
\* was requested before the call executes: every task created before is
\* finished, and no call of invalidate is left waiting to create one.
C22_ClearPendingFinal ==
    [][ ClearPending
        => (/\ \A t \in DOMAIN timers : Finished(timers', t)
            /\ \A c \in Callers : callers'[c].pc # "awaiting") ]_vars

\* C23: every file-modified event for a non-directory path that the
\* observer delivers to the handler, on its own thread, makes on_modified
\* invoke cache.invalidate(path) (the removal of the entry and the
\* notifications follow from the invocation, see C4); directory events are
\* ignored.
C23_EventInvalidates ==
    [][ ret'.op = "on_modified"
        => (/\ ret'.out = "file_modified"
                 => (ret'.flag /\ hist'[ret'.arg].lastCall = now)
            /\ ret'.out = "dir_modified"
                 => (~ret'.flag /\ UNCHANGED cacheVars)) ]_vars

\* C24: after any sequence of register and unregister calls on the router,
\* a name n is in the reverse index entry of path p exactly when p is in n's
\* registered paths, and no path maps to the empty set
C24_MapsAgree ==
    /\ \A q \in DOMAIN pathToAgents :
          /\ pathToAgents[q] # {}
          /\ \A n \in pathToAgents[q] : n \in DOMAIN agentPaths /\ q \in agentPaths[n]
    /\ \A n \in DOMAIN agentPaths :
          \A q \in agentPaths[n] : q \in DOMAIN pathToAgents /\ n \in pathToAgents[q]

\* the agents with a registered path equal to changed, or with a registered
\* path that is a directory and contains changed component by component
AgentsRegisteredOver(changed) ==
    {n \in DOMAIN agentPaths :
        \E q \in agentPaths[n] : q = changed \/ (q \in fsDirs /\ IsUnder(changed, q))}

\* C25: get_affected_agents(changed) returns exactly the agents that have a
\* registered path equal to changed or a registered directory containing it
\* by path components; sharing a string prefix with a registered directory,
\* or lying in another agent's workspace, affects no agent
C25_ExactlyTheAffected ==
    [][ ret'.op = "get_affected_agents"
        => {n \in RouterNames : ret'.data[n]} = AgentsRegisteredOver(ChangedPaths[ret'.val])
      ]_vars

\* the same, asked only while the router's two maps agree
C25_ExactWhenMapsAgree ==
    [][ (ret'.op = "get_affected_agents" /\ C24_MapsAgree)
        => {n \in RouterNames : ret'.data[n]} = AgentsRegisteredOver(ChangedPaths[ret'.val])
      ]_vars

\* C26: after a register_agent call of the service none of whose schedule
\* calls raised, each of the agent's paths that is a directory is watched
\* recursively, each other path whose parent exists has that parent watched
\* non-recursively, and paths that already had a watch keep that one watch
C26_WatchesMatchPaths ==
    [][ (ret'.op = "register_agent" /\ ~ret'.flag)
        => /\ \A q \in agentPaths'[ret'.arg] :
                /\ q \in fsDirs
                     => /\ q \in DOMAIN watchHandlers'
                        /\ watchHandlers'[q] = [dir |-> q, recursive |-> TRUE]
                /\ (q \notin fsDirs /\ Parent(q) \in fsDirs)
                     => /\ q \in DOMAIN watchHandlers'
                        /\ watchHandlers'[q] = [dir |-> Parent(q), recursive |-> FALSE]
           /\ \A q \in DOMAIN watchHandlers :
                q \in DOMAIN watchHandlers' /\ watchHandlers'[q] = watchHandlers[q]
      ]_vars

\* C27: a name that is not a key of the registry resolves to main:
\* get_agent_config of it returns main's definition, and the cron callback of
\* a job naming it asks get_loop for "main" (the config file being one that
\* loads)
C27_UnknownResolvesToMain ==
    [][ diskDoc.kind = "valid"
        => /\ (ret'.op = "get_agent_config" /\ ret'.arg \notin DOMAIN config'.registry)
                => ret'.data = config'.registry["main"]
           /\ (ret'.op = "on_cron_job" /\ ret'.arg \notin DOMAIN config'.registry)
                => ret'.out = "main"
      ]_vars

\* the part of C27 about get_agent_config alone
C27_GetAgentConfigFallsBack ==
    [][ (ret'.op = "get_agent_config" /\ ret'.arg \notin DOMAIN config'.registry)
        => ret'.data = config'.registry["main"] ]_vars

\* C28: for a document in which agents.defaults is present and
\* agents.registry.main is absent, the registry key itself being absent
\* included, the migrated document has agents.registry.main built from the
\* values of agents.defaults and has no agents.defaults
C28_MainFromDefaults ==
    [][ (/\ ret'.op = "migrate_config"
         /\ "agents" \in DOMAIN jsonDoc
         /\ "defaults" \in DOMAIN jsonDoc["agents"]
         /\ "main" \notin DOMAIN DictGet(jsonDoc["agents"], "registry", EmptyFn))
        => /\ "agents" \in DOMAIN migrated'
           /\ "defaults" \notin DOMAIN migrated'["agents"]
           /\ "registry" \in DOMAIN migrated'["agents"]
           /\ "main" \in DOMAIN migrated'["agents"]["registry"]
           /\ migrated'["agents"]["registry"]["main"]
                = MainFromDefaults(jsonDoc["agents"]["defaults"])
      ]_vars

\* the same for the documents that have an agents.registry key
C28_MainFromDefaultsWithRegistry ==
    [][ (/\ ret'.op = "migrate_config"
         /\ "agents" \in DOMAIN jsonDoc
         /\ "defaults" \in DOMAIN jsonDoc["agents"]
         /\ "registry" \in DOMAIN jsonDoc["agents"]
         /\ "main" \notin DOMAIN jsonDoc["agents"]["registry"])
        => /\ "defaults" \notin DOMAIN migrated'["agents"]
           /\ "main" \in DOMAIN migrated'["agents"]["registry"]
           /\ migrated'["agents"]["registry"]["main"]
                = MainFromDefaults(jsonDoc["agents"]["defaults"])
      ]_vars

\* the key paths of a document: the keys from the top down to each dict
\* entry, through lists
RECURSIVE KeyPaths(_)
KeyPaths(data) ==
    IF data.t = "dict"
    THEN UNION {{<<data.items[i].k>>}
                  \cup {<<data.items[i].k>> \o q : q \in KeyPaths(data.items[i].v)} :
                i \in DOMAIN data.items}
    ELSE IF data.t = "list"
    THEN UNION {KeyPaths(data.items[i].v) : i \in DOMAIN data.items}
    ELSE {}

\* a path with the keys that hold ":" kept and the others made snake_case,
\* or camelCase
SnakePath(q) == [i \in DOMAIN q |-> IF HasColon(q[i]) THEN q[i] ELSE CamelToSnake(q[i])]
CamelPath(q) == [i \in DOMAIN q |-> IF HasColon(q[i]) THEN q[i] ELSE SnakeToCamel(q[i])]

\* C29: the load-side and the save-side conversion keep every key that holds
\* ":" character for character at any depth and convert the other keys, so
\* a session key is the same in memory and on disk
C29_ColonKeysKept ==
    [][ /\ ret'.op = "load_config"
             => KeyPaths(loaded') = {SnakePath(q) : q \in KeyPaths(jsonDoc)}
        /\ ret'.op = "save_config"
             => KeyPaths(jsonDoc') = {CamelPath(q) : q \in KeyPaths(loaded)}
      ]_vars

\* a session key that a conversion would change sits three levels down in
\* the file, and the config loaded from it has it unchanged
C29_Witness ==
    /\ ret.op = "load_config"
    /\ \E q \in KeyPaths(jsonDoc) :
          /\ Len(q) = 3
          /\ HasColon(q[3])
          /\ CamelToSnake(q[3]) # q[3]
          /\ \E r \in KeyPaths(loaded) : Len(r) = 3 /\ r[3] = q[3]

\* C30: load, save, load is a fixed point: whatever is loaded after saves of
\* the loaded config is the config the first load gave
C30_RoundTripFixedPoint ==
    loaded # NoDoc => loaded = firstLoaded

\* C31: ensure_agent_workspace never overwrites a file that exists when it is
\* called, and running it again with the same arguments changes no file
C31_EnsureIdempotent ==
    [][ ret'.op = "ensure_agent_workspace"
        => /\ \A f \in AllWorkspaceFiles : wsFiles[f] # Absent => wsFiles'[f] = wsFiles[f]
           /\ \A ws \in Workspaces :
                ws[1] = ret'.arg
                  => EnsureAgentWorkspace(wsFiles', fsDirs', ws, ret'.out).files = wsFiles'
      ]_vars

\* a run has written templates next to a file a user had written
C31_Witness ==
    /\ ret.op = "ensure_agent_workspace"
    /\ wsFiles[<<"w1", "USER.md">>] = UserContent
    /\ wsFiles[<<"w1", "AGENTS.md">>] = TemplateOf(<<"w1", "AGENTS.md">>, ret.out)

\* C35: after _create_agent_loop the workspace directory, its memory/ and
\* its skills/ subdirectory exist, whatever the workspace held before
C35_DirectoriesExist ==
    [][ ret'.op = "create_agent_loop"
        => \A ws \in Workspaces :
             ws[1] = ret'.arg
               => {ws, ws \o <<"memory">>, ws \o <<"skills">>} \subseteq fsDirs'
      ]_vars

\* the same for a workspace that does not hold AGENTS.md beforehand
C35_DirectoriesExistWithoutAgentsMd ==
    [][ ret'.op = "create_agent_loop"
        => \A ws \in Workspaces :
             (ws[1] = ret'.arg /\ wsFiles[ws \o <<"AGENTS.md">>] = Absent)
               => {ws, ws \o <<"memory">>, ws \o <<"skills">>} \subseteq fsDirs'
      ]_vars

\* C32: a debounced invalidation that has begun executing (its sleep is over)
\* is not ended by a cancellation: it goes on until every registered
\* invalidator has had its callback
C32_InFlightCompletes ==
    [][ \A t \in DOMAIN timers :
          timers[t].state = "running" => timers'[t].state \in {"running", "done"} ]_vars

\* C33: the entry a get stores pairs a content with the mtime the file had
\* when that content was read: it is the file as it was at the stat or as it
\* is after the read, also when the file is written between the two
C33_EntryPairsMtimeAndContent ==
    [][ (ret'.op = "cache_get" /\ ret'.flag /\ ret'.out = "" /\ ~ret'.raised)
        => /\ ret'.arg \in DOMAIN cache'
           /\ cache'[ret'.arg] \in {files[ret'.arg], files'[ret'.arg]} ]_vars


\* a handler task of a publish that has not taken its first step
Unstarted(p, k) ==
    p \in DOMAIN pubs /\ k \in DOMAIN pubs[p].st /\ pubs[p].st[k] = "ready"

\* a publish has returned only when each of its handlers has returned or raised
C37_ReturnsAfterAll ==
    \A p \in DOMAIN pubs :
        pubs[p].result = "returned"
           => \A k \in DOMAIN pubs[p].st : pubs[p].st[k] \in {"done", "failed"}

\* every handler of a publish is started, also when the handlers started
\* before it stay suspended for ever
C37_EveryHandlerStarts ==
    \A p \in 1..MaxPubs, k \in 1..MaxSubs : Unstarted(p, k) ~> ~Unstarted(p, k)

\* C37: for one published event with several handlers, every handler is started
\* without waiting for a suspended one to finish, and the publish returns only
\* after all of them have finished or failed.
C37_HandlersRunConcurrently == []C37_ReturnsAfterAll /\ C37_EveryHandlerStarts

\* the second handler of a publish has been called while the first is still
\* suspended, and the publisher is still waiting
C37_Witness ==
    \E p \in DOMAIN pubs :
        /\ Len(pubs[p].snap) = 2
        /\ pubs[p].st[1] = "suspended"
        /\ pubs[p].st[2] \in {"suspended", "done", "failed"}
        /\ pubs[p].result = "pending"


\* the handler never looks at the workspace more than Polls times in its loop
C36_BoundedPolls == \A t \in DOMAIN addTasks : addTasks[t].polls <= Polls

\* a step of the handler that finds the workspace ends the handler with the
\* agent registered and a watch for each of its paths that has a directory to
\* watch (no schedule call raising); a handler that ends without having found
\* it leaves the router and the watches as they were
C36_RegistersIffFound ==
    [][ \A t \in DOMAIN addTasks :
          (addTasks[t].pc = "poll" /\ addTasks'[t].pc # "poll")
          => /\ addTasks[t].ws \in fsDirs
                => /\ addTasks'[t].pc = "done"
                   /\ addTasks[t].name \in DOMAIN agentPaths'
                   /\ \A q \in agentPaths'[addTasks[t].name] :
                        q \in DOMAIN pathToAgents'
                        /\ addTasks[t].name \in pathToAgents'[q]
                   /\ ~ret'.flag
                        => \A q \in agentPaths'[addTasks[t].name] :
                              WatchFor(q, fsDirs) # {} => q \in DOMAIN watchHandlers'
             /\ (addTasks'[t].pc = "done" /\ addTasks[t].ws \notin fsDirs)
                => /\ addTasks'[t].polls = Polls
                   /\ UNCHANGED <<agentPaths, pathToAgents, watchHandlers>>
      ]_vars

\* every handler task ends
C36_Terminates ==
    \A t \in 1..MaxAddTasks :
        (t \in DOMAIN addTasks) ~> (t \in DOMAIN addTasks /\ addTasks[t].pc = "done")

\* C36: the watcher's agent.added handler ends after at most 10 polls of the
\* workspace; when it finds the workspace the agent is registered and its
\* watches are installed, and when the workspace never appears it returns
\* having registered nothing and installed no watch.
C36_BoundedWait == []C36_BoundedPolls /\ C36_RegistersIffFound /\ C36_Terminates

\* one handler gave up after ten polls, and another found the workspace after
\* having slept
C36_Witness ==
    /\ \E t \in DOMAIN addTasks :
          addTasks[t].pc = "done" /\ addTasks[t].out = "absent" /\ addTasks[t].polls = Polls
    /\ \E t \in DOMAIN addTasks :
          /\ addTasks[t].pc = "done" /\ addTasks[t].out = "registered"
          /\ addTasks[t].polls > 1
          /\ addTasks[t].name \in DOMAIN agentPaths


\* C38: for every path, the debounce timer tasks that have not ended are at
\* most one, and that one is the task the pending map records for the path
C38_OneTrackedTimer ==
    \A t \in DOMAIN timers :
        ~Finished(timers, t)
           => /\ timers[t].path \in DOMAIN pendingInv
              /\ pendingInv[timers[t].path] = t


\* path affects agent: it is one of the paths registered for the agent, or it
\* lies under the agent's skills directory
Affects(path, agent) ==
    /\ agent \in DOMAIN agentPaths
    /\ \E q \in agentPaths[agent] :
          path = q \/ (q[Len(q)] = "skills" /\ IsUnder(path, q))

\* C34: an invalidator registered for agent A is called with a path only when
\* the path affects A
C34_OnlyAffectedNotified ==
    [][ ret'.op = "do_invalidate"
        => \A k \in DOMAIN ret'.data :
              Affects(SvcChangedPaths[ret'.val], ret'.data[k].agent) ]_vars

\* C39: the invalidator list holds the context builder and the skills loader
\* of live instances only: none of a retired instance, so that the list does
\* not grow when an agent is retired and created again
C39_OnlyLiveInvalidators ==
    \A k \in DOMAIN invalidators :
        /\ invalidators[k].inst \notin stopped
        /\ \E n \in DOMAIN loops : loops[n].id = invalidators[k].inst

\* C40: when the handlers of agent.removed(X) have run (the manager's is the
\* only one subscribed to the topic), X is no longer registered with the
\* router, and get_affected_agents returns X for no path
C40_RemovedLeavesRouter ==
    [][ ret'.op = "handle_agent_removed"
        => /\ ret'.arg \notin DOMAIN agentPaths'
           /\ \A i \in DOMAIN SvcChangedPaths :
                 ret'.arg \notin AffectedAgents(pathToAgents', fsDirs', SvcChangedPaths[i])
      ]_vars

====
